---- MODULE Spec2Model ----
(***************************************************************************)
(* TornStatsAdapter (src/src/utils/tornstats_adapter.py): the cache, the   *)
(* strategy chain of get_player_data, the three strategies and the         *)
(* normalizer, as a state machine.                                         *)
(*                                                                         *)
(* One action is one event-loop step of a get_player_data coroutine: from  *)
(* the point where it is resumed to the point where it next suspends on    *)
(* network I/O (or returns).  Reading a response body (response.json(),    *)
(* response.text()) is folded into the arrival of the response: no adapter *)
(* state is read or written between the two.                               *)
(***************************************************************************)
EXTENDS Integers, Sequences, FiniteSets, TLC

\* ------------------------------------------------------------------ bounds

\* Number of clock ticks a behaviour may take.
MaxTicks == 3

\* Number of get_player_data invocations a behaviour may make.
MaxCalls == 3

\* Number of get_player_data invocations of a behaviour of SpecAnyShape.
MaxShapeCalls == 2

\* Number of get_player_data invocations of a behaviour of SpecConc.
MaxConcCalls == 2

\* Number of clock ticks of a behaviour of SpecConc.
MaxConcTicks == 1

\* Number of get_player_data and ensure_session invocations of a
\* behaviour of SpecSession.
MaxSessionCalls == 3

\* ---------------------------------------------------------------- constants

\* self.cache_expiry
cache_expiry == 3600

\* The clock advances in steps of half the expiry time, so that entry ages
\* below, equal to and above cache_expiry all occur.
TickLen == cache_expiry \div 2

Players == {1, 2}

\* self.api_key: falsy (None or "") or a key.
NoKey == ""
Keys == {NoKey, "KEY"}

Stats == {"strength", "defense", "speed", "dexterity"}

\* ------------------------------------------------------- Python values

\* Every Python value is a tagged record, so that any two are comparable.
None == [kind |-> "none"]
Num(n) == [kind |-> "num", n |-> n]
Str(s) == [kind |-> "str", s |-> s]
List(items) == [kind |-> "list", items |-> items]
Dict(d) == [kind |-> "dict", d |-> d]

\* The empty mapping {}.
EmptyMap == [k \in {} |-> None]

\* An exception leaving the evaluated code (not a Python value).
Raised == [kind |-> "raise"]

\* bool(v)
Truthy(v) ==
    CASE v.kind = "none" -> FALSE
      [] v.kind = "num" -> v.n # 0
      [] v.kind = "str" -> v.s # ""
      [] v.kind = "list" -> Len(v.items) > 0
      [] v.kind = "dict" -> DOMAIN v.d # {}
      [] OTHER -> FALSE

\* `key in v` raises TypeError for a value that is no container.
InRaises(v) == v.kind \in {"none", "num"}

\* `key in v`: key membership of a dict, element membership of a list,
\* substring of a str (the strings of the model are single words, so a
\* word is a substring of another only when they are equal).
In(key, v) ==
    CASE v.kind = "dict" -> key \in DOMAIN v.d
      [] v.kind = "list" -> \E i \in 1..Len(v.items) : v.items[i] = Str(key)
      [] v.kind = "str" -> v.s = key
      [] OTHER -> FALSE

\* v[key] for a str key: the value, or Raised (TypeError on list and str).
Index(v, key) ==
    IF v.kind = "dict" /\ key \in DOMAIN v.d THEN v.d[key] ELSE Raised

\* v.get(key, default): Raised (AttributeError) when v is no dict.
Get(v, key, default) ==
    IF v.kind # "dict" THEN Raised
    ELSE IF key \in DOMAIN v.d THEN v.d[key] ELSE default

\* Mutant: the source of the input is kept.
SpyRecord_source_kept(src) ==
    IF src.kind # "dict" THEN Raised
    ELSE Dict([spy |-> Dict(
        [name |-> Get(src, "name", Str("Unknown")),
         level |-> Get(src, "level", Num(0)),
         strength |-> Get(src, "strength", Num(0)),
         defense |-> Get(src, "defense", Num(0)),
         speed |-> Get(src, "speed", Num(0)),
         dexterity |-> Get(src, "dexterity", Num(0)),
         update_time |-> Get(src, "update_time", Str("Unknown")),
         source |-> Get(src, "source", Str("TornStats API"))])])

\* The record the normalizer builds from the mapping src (lines 406-417,
\* 422-433, 439-450): Raised when src has no .get.
SpyRecord(src) ==
    IF src.kind # "dict" THEN Raised
    ELSE Dict([spy |-> Dict(
        [name |-> Get(src, "name", Str("Unknown")),
         level |-> Get(src, "level", Num(0)),
         strength |-> Get(src, "strength", Num(0)),
         defense |-> Get(src, "defense", Num(0)),
         speed |-> Get(src, "speed", Num(0)),
         dexterity |-> Get(src, "dexterity", Num(0)),
         update_time |-> Get(src, "update_time", Str("Unknown")),
         source |-> Str("TornStats API")])])

\* Mutant: a spy-keyed input is rebuilt like a user-wrapped one.
normalize_tornstats_data_spy_rebuilt(data) ==
    IF InRaises(data) THEN Raised
    ELSE IF In("spy", data) THEN
        (IF Index(data, "spy") = Raised THEN Raised
         ELSE SpyRecord(Index(data, "spy")))
    ELSE IF In("user", data) THEN
        (IF Index(data, "user") = Raised THEN Raised
         ELSE SpyRecord(Index(data, "user")))
    ELSE IF In("status", data) THEN
        (IF Index(data, "status") = Raised THEN Raised
         ELSE IF Index(data, "status") = Str("ok") /\ In("stats", data)
              THEN SpyRecord(Index(data, "stats"))
         ELSE IF data.kind = "dict" /\ \A k \in Stats : In(k, data)
              THEN SpyRecord(data)
         ELSE data)
    ELSE IF data.kind = "dict" /\ \A k \in Stats : In(k, data)
         THEN SpyRecord(data)
    ELSE data

\* Mutant: an input with the four stats at its top level is not rebuilt.
normalize_tornstats_data_bare_raw(data) ==
    IF InRaises(data) THEN Raised
    ELSE IF In("spy", data) THEN data
    ELSE IF In("user", data) THEN
        (IF Index(data, "user") = Raised THEN Raised
         ELSE SpyRecord(Index(data, "user")))
    ELSE IF In("status", data) THEN
        (IF Index(data, "status") = Raised THEN Raised
         ELSE IF Index(data, "status") = Str("ok") /\ In("stats", data)
              THEN SpyRecord(Index(data, "stats"))
         ELSE IF data.kind = "dict" /\ \A k \in Stats : In(k, data)
              THEN SpyRecord(data)
         ELSE data)
    ELSE data

\* Mutant: a spy-keyed input is handed back under the key user.
normalize_tornstats_data_spy_as_user(data) ==
    IF InRaises(data) THEN Raised
    ELSE IF In("spy", data) THEN
        (IF Index(data, "spy") = Raised THEN Raised
         ELSE Dict([user |-> Index(data, "spy")]))
    ELSE IF In("user", data) THEN
        (IF Index(data, "user") = Raised THEN Raised
         ELSE SpyRecord(Index(data, "user")))
    ELSE IF In("status", data) THEN
        (IF Index(data, "status") = Raised THEN Raised
         ELSE IF Index(data, "status") = Str("ok") /\ In("stats", data)
              THEN SpyRecord(Index(data, "stats"))
         ELSE IF data.kind = "dict" /\ \A k \in Stats : In(k, data)
              THEN SpyRecord(data)
         ELSE data)
    ELSE IF data.kind = "dict" /\ \A k \in Stats : In(k, data)
         THEN SpyRecord(data)
    ELSE data

\* Mutant: the status/stats shape is tested before the user shape.
normalize_tornstats_data_stats_first(data) ==
    IF InRaises(data) THEN Raised
    ELSE IF In("spy", data) THEN data
    ELSE IF In("status", data) /\ Index(data, "status") = Raised THEN Raised
    ELSE IF In("status", data) /\ Index(data, "status") = Str("ok")
            /\ In("stats", data)
         THEN SpyRecord(Index(data, "stats"))
    ELSE IF In("user", data) THEN
        (IF Index(data, "user") = Raised THEN Raised
         ELSE SpyRecord(Index(data, "user")))
    ELSE IF data.kind = "dict" /\ \A k \in Stats : In(k, data)
         THEN SpyRecord(data)
    ELSE data

\* _normalize_tornstats_data(data)
normalize_tornstats_data(data) ==
    IF InRaises(data) THEN Raised
    ELSE IF In("spy", data) THEN data
    ELSE IF In("user", data) THEN
        (IF Index(data, "user") = Raised THEN Raised
         ELSE SpyRecord(Index(data, "user")))
    ELSE IF In("status", data) THEN
        (IF Index(data, "status") = Raised THEN Raised
         ELSE IF Index(data, "status") = Str("ok") /\ In("stats", data)
              THEN SpyRecord(Index(data, "stats"))
         ELSE IF data.kind = "dict" /\ \A k \in Stats : In(k, data)
              THEN SpyRecord(data)
         ELSE data)
    ELSE IF data.kind = "dict" /\ \A k \in Stats : In(k, data)
         THEN SpyRecord(data)
    ELSE data

\* ------------------------------------------------------------ responses

\* session.get raised: timeout, connection error, DNS failure.
TransportError == [kind |-> "error"]

\* A response that arrived, with its status and its body.
Response(status, body) == [kind |-> "response", status |-> status, body |-> body]

\* A body on which response.json() / json.loads raises JSONDecodeError.
NonJson == [kind |-> "text"]

\* An attempt that yields nothing: the loop goes on to the next candidate.
Miss == [kind |-> "miss"]

\* The mapping f updated with the items of g (dict item assignment).
Update(f, g) ==
    [k \in DOMAIN f \cup DOMAIN g |-> IF k \in DOMAIN g THEN g[k] ELSE f[k]]

RECURSIVE SumOver(_, _)
SumOver(f, keys) ==
    IF keys = {} THEN 0
    ELSE LET k == CHOOSE x \in keys : TRUE
         IN f[k] + SumOver(f, keys \ {k})

\* sum(data.values())
SumValues(f) == SumOver(f, DOMAIN f)

\* A container div: the numbers its per-stat elements hold, addressed by
\* class name (classed) and by "<Stat>:" text (texts).
Div(classed, texts) == [kind |-> "div", classed |-> classed, texts |-> texts]

NoStats == [k \in {} |-> 0]

ZeroStats == [k \in Stats |-> 0]

\* _extract_stats_from_div(div)
extract_stats_from_div(div) ==
    LET byClass == Update(ZeroStats, div.classed)
    IN IF SumValues(byClass) = 0 THEN Update(byClass, div.texts) ELSE byClass

\* A profile page: its container div (None when absent), the numbers in
\* its table cells and in its "<Stat>:" texts, the name its title gives
\* (None when the title has no " - "), and the level its texts give.
Page(div, table, text, name, level) ==
    [kind |-> "page", div |-> div, table |-> table, text |-> text,
     name |-> name, level |-> level]

PlayerName(p) == Str("Player " \o ToString(p))

\* if not data or sum(data.values()) == 0 (lines 195, 209)
nothing_found(data) == DOMAIN data = {} \/ SumValues(data) = 0

\* Mutant: the table scan and the text search run whatever was found.
html_methods_all(page) ==
    LET d1 == IF page.div # None THEN extract_stats_from_div(page.div) ELSE NoStats
        d2 == Update(d1, page.table)
    IN << [method |-> "container", found |-> d1, data |-> d1],
          [method |-> "table", found |-> page.table, data |-> d2],
          [method |-> "text", found |-> page.text,
           data |-> Update(d2, page.text)] >>

\* The extraction methods _parse_html_profile runs on a page, in the order
\* in which it runs them (lines 187-219): for each, what the method itself
\* found and the content of data after it.
html_methods(page) ==
    LET d1 == IF page.div # None THEN extract_stats_from_div(page.div) ELSE NoStats
        m1 == << [method |-> "container", found |-> d1, data |-> d1] >>
        d2 == Update(d1, page.table)
        m2 == IF nothing_found(d1)
              THEN Append(m1, [method |-> "table", found |-> page.table,
                               data |-> d2])
              ELSE m1
        d == m2[Len(m2)].data
    IN IF nothing_found(d)
       THEN Append(m2, [method |-> "text", found |-> page.text,
                        data |-> Update(d, page.text)])
       ELSE m2

\* The stats _parse_html_profile collects from a page (lines 187-219).
html_stats(page) == html_methods(page)[Len(html_methods(page))].data

StatOr0(data, k) == IF k \in DOMAIN data THEN Num(data[k]) ELSE Num(0)

\* The record of lines 249-260 and 383-394.
HtmlRecord(name, level, data, source) ==
    Dict([spy |-> Dict(
        [name |-> name,
         level |-> Num(level),
         strength |-> StatOr0(data, "strength"),
         defense |-> StatOr0(data, "defense"),
         speed |-> StatOr0(data, "speed"),
         dexterity |-> StatOr0(data, "dexterity"),
         update_time |-> Str("HTML Extraction"),
         source |-> Str(source)])])

\* Mutant: the page is parsed whatever the status.
html_try_any_status(resp, player_id) ==
    IF resp = TransportError THEN Raised
    ELSE LET data == html_stats(resp.body)
         IN IF DOMAIN data # {} /\ SumValues(data) > 0
            THEN HtmlRecord(IF resp.body.name # None THEN resp.body.name
                            ELSE PlayerName(player_id),
                            resp.body.level, data, "HTML")
            ELSE Miss

\* The body of the try block of one URL of _parse_html_profile.
html_try(resp, player_id) ==
    IF resp = TransportError THEN Raised
    ELSE IF resp.status # 200 THEN Miss
    ELSE LET data == html_stats(resp.body)
         IN IF DOMAIN data # {} /\ SumValues(data) > 0
            THEN HtmlRecord(IF resp.body.name # None THEN resp.body.name
                            ELSE PlayerName(player_id),
                            resp.body.level, data, "HTML")
            ELSE Miss

\* except Exception: continue (lines 263-265)
html_attempt(resp, player_id) ==
    LET r == html_try(resp, player_id)
    IN IF r = Raised THEN Miss ELSE r

\* Mutant: the parsed body is normalized without the truth test.
json_try_no_truth_test(resp) ==
    IF resp = TransportError THEN Raised
    ELSE IF resp.status # 200 THEN Miss
    ELSE IF resp.body = NonJson THEN Miss
    ELSE normalize_tornstats_data(resp.body)

\* Mutant: the body is read whatever the status.
json_try_any_status(resp) ==
    IF resp = TransportError THEN Raised
    ELSE IF resp.body = NonJson THEN Miss
    ELSE IF ~Truthy(resp.body) THEN Miss
    ELSE normalize_tornstats_data(resp.body)

\* The body of the try block of one endpoint of _fetch_json_api, with its
\* inner except json.JSONDecodeError (lines 106-127, 135-149).
json_try(resp) ==
    IF resp = TransportError THEN Raised
    ELSE IF resp.status # 200 THEN Miss
    ELSE IF resp.body = NonJson THEN Miss
    ELSE IF ~Truthy(resp.body) THEN Miss
    ELSE normalize_tornstats_data(resp.body)

\* Mutant: an exception of the attempt leaves the loop.
json_attempt_unhandled(resp) == json_try(resp)

\* except Exception: continue (lines 128-130, 150-152)
json_attempt(resp) ==
    LET r == json_try(resp)
    IN IF r = Raised THEN Miss ELSE r

\* A spy page: the value after "var playerData = " (None when the marker is
\* absent, NonJson when the text up to ';' does not parse), its stats
\* container (None when absent), its heading and its level.
SpyPage(embedded, container, heading, level) ==
    [kind |-> "spypage", embedded |-> embedded, container |-> container,
     heading |-> heading, level |-> level]

\* The container of a document on which BeautifulSoup(html, 'html.parser')
\* raises (line 333).
BadDom == [kind |-> "baddom"]

\* _extract_json_from_html(html)
extract_json_from_html(html) ==
    IF html.embedded = None THEN None
    ELSE IF html.embedded = NonJson THEN None
    ELSE LET r == normalize_tornstats_data(html.embedded)
         IN IF r = Raised THEN None ELSE r

\* _parse_tornstats_spy_html(soup, player_id)
parse_tornstats_spy_html(soup, player_id) ==
    IF soup.container = None THEN None
    ELSE HtmlRecord(IF soup.heading # None THEN soup.heading
                    ELSE PlayerName(player_id),
                    soup.level, extract_stats_from_div(soup.container), "HTML Spy")

\* Mutant: the DOM is parsed first, the embedded JSON is the fallback.
spy_try_dom_first(resp, player_id) ==
    IF resp = TransportError THEN Raised
    ELSE IF resp.status # 200 THEN None
    ELSE IF resp.body.container = BadDom THEN Raised
    ELSE LET record == parse_tornstats_spy_html(resp.body, player_id)
         IN IF record # None THEN record
            ELSE extract_json_from_html(resp.body)

\* What _try_authenticated_access does with the spy page response
\* (lines 325-339).
spy_try(resp, player_id) ==
    IF resp = TransportError THEN Raised
    ELSE IF resp.status # 200 THEN None
    ELSE LET json_data == extract_json_from_html(resp.body)
         IN IF Truthy(json_data) THEN json_data
            ELSE IF resp.body.container = BadDom THEN Raised
            ELSE parse_tornstats_spy_html(resp.body, player_id)

\* Mutant: an exception of the spy page request or of the parsing leaves
\* the strategy.
spy_attempt_unhandled(resp, player_id) == spy_try(resp, player_id)

\* except Exception (lines 336-339)
spy_attempt(resp, player_id) ==
    LET r == spy_try(resp, player_id)
    IN IF r = Raised THEN None ELSE r

\* ------------------------------------------------------------- requests

\* The endpoints of _fetch_json_api (lines 95-102), in list order.
endpoints ==
    << "/api/v1/player/{id}", "/api/v1/player/{id}/full", "/api/v1/battles/{id}" >>

\* The urls of _parse_html_profile (lines 158-165), in list order.
urls ==
    << "/profiles/{id}", "/player.php?id={id}", "/profiles.php?XID={id}",
       "/spy.php?id={id}" >>

login_url == "/login.php"

spy_url == "/spy.php?id={id}"

\* A request: the strategy that issues it, its position in the strategy,
\* its url, the way it carries the credential ("header": Authorization
\* header, "query": ?key=, "param": params of the login request, "cookies":
\* the cookies argument, "none"), the cookies passed with it and whether
\* redirects are followed (the default of session.get).
Request(strategy, i, url, cred) ==
    [strategy |-> strategy, i |-> i, url |-> url, cred |-> cred,
     cookies |-> {}, allow_redirects |-> TRUE]

HeaderRequest(i) == Request("json", i, endpoints[i], "header")

QueryRequest(i) == Request("json", Len(endpoints) + i, endpoints[i], "query")

HtmlRequest(i) == Request("html", i, urls[i], "none")

\* The login request (lines 309-314).
LoginRequest ==
    [Request("auth", 1, login_url, "param") EXCEPT !.allow_redirects = FALSE]

\* The spy page request, with cookies=cookies (lines 320-324).
SpyRequest(cookies) ==
    [Request("auth", 2, spy_url, "cookies") EXCEPT !.cookies = cookies]

\* The bodies the model lets a JSON endpoint answer with: text that is no
\* JSON, the empty object, a number (on which the normalizer faults) and a
\* user-wrapped object.
UserBody ==
    Dict([user |-> Dict([name |-> Str("Duke"), strength |-> Num(500),
                         speed |-> Num(300)])])

JsonBodies == {NonJson, Dict(EmptyMap), Num(7), UserBody}

JsonResponses ==
    {TransportError, Response(404, UserBody)}
        \cup {Response(200, b) : b \in JsonBodies}

StatsPage == Page(None, [strength |-> 1234567], NoStats, Str("Duke"), 50)

EmptyPage == Page(None, NoStats, NoStats, None, 0)

HtmlResponses ==
    {TransportError, Response(404, StatsPage), Response(200, EmptyPage),
     Response(200, StatsPage)}

\* The answer to the login request: its status and the cookies it sets.
LoginResponse(status, cookies) ==
    [kind |-> "response", status |-> status, body |-> None, cookies |-> cookies]

LoginResponses ==
    {TransportError, LoginResponse(200, {}), LoginResponse(302, {"PHPSESSID"})}

SpyPages ==
    {SpyPage(UserBody, None, None, 0),
     SpyPage(NonJson, Div([strength |-> 7], NoStats), Str("Duke"), 50),
     SpyPage(None, None, None, 0),
     SpyPage(None, BadDom, None, 0),
     SpyPage(None, Div([strength |-> 7], NoStats), Str("Duke"), 50)}

SpyResponses ==
    {TransportError, Response(403, SpyPage(None, None, None, 0))}
        \cup {Response(200, pg) : pg \in SpyPages}

\* JSON bodies of further shapes: an object with a top-level spy key that
\* holds only part of a record, and an object of no recognized shape.
PartialSpyBody == Dict([spy |-> Dict([strength |-> Num(9)])])

ErrorBody == Dict([error |-> Str("Invalid key")])

OtherJsonResponses == {Response(200, PartialSpyBody), Response(200, ErrorBody)}

\* The answers a request can get.
Responses(req) ==
    CASE req.strategy = "json" -> JsonResponses
      [] req.strategy = "html" -> HtmlResponses
      [] req = LoginRequest -> LoginResponses
      [] OTHER -> SpyResponses

\* ---------------------------------------------------------------- state

VARIABLES
    api_key,    \* self.api_key
    session,    \* self.session: "none", "open" or "closed"
    cache,      \* self.cache: cache key -> [data, timestamp]
    now,        \* asyncio.get_event_loop().time()
    call,       \* the get_player_data coroutines: what each is awaiting
    ncalls,     \* number of get_player_data and ensure_session invocations
                \* so far
    returned,   \* the get_player_data return of the last step, if it was one
    last,       \* per player, the most recent completed get_player_data:
                \* what it returned, when, and when that record was fetched
    norm,       \* a direct call of _normalize_tornstats_data: its argument
                \* and, once it ended, how it ended; and how a call on
                \* the value it returned ended
    open_sessions,  \* number of ClientSession objects created by the
                    \* adapter and not closed
    impl,       \* which stats_estimator module is imported
    spies,      \* data/spies.json: absent, or player key -> spy record
    ecall,      \* the last call of a stats_estimator function: its
                \* arguments and, once it ended, how it ended
    scan,       \* a run of the table scan of _parse_html_profile: the
                \* tables of the page and, once it ended, the stats found
    COMMAND_CATEGORY_MAP,   \* db_connector's module-level dictionary:
                            \* command name -> category
    db,         \* the shared SQLite database: the tables
                \* server_permissions_settings and role_permissions
    pcall       \* the last call of has_permission: its arguments and, once
                \* it ended, what it returned

vars ==
    << api_key, session, cache, now, call, ncalls, returned, last, norm,
       open_sessions, impl, spies, ecall, scan, COMMAND_CATEGORY_MAP, db,
       pcall >>

\* cache_key = f"player_{player_id}"
CacheKey(player_id) == << "player_", player_id >>

NoAge == 0 - 1

NoCall == [result |-> None, at |-> NoAge, fetchedAt |-> NoAge]

NoReturn == [c |-> 0]

\* A call slot: where the coroutine is, and what it did so far: the
\* requests it issued (log), how many of them were answered or failed
\* (answered), the answer to the last request answered (resp) and the
\* strategies that finished (finished).
Idle ==
    [pc |-> "idle", player |-> 0, log |-> << >>, answered |-> 0, resp |-> None,
     finished |-> << >>, readAge |-> NoAge, startedAt |-> 0, prev |-> NoCall]

\* The normalizer has not returned (yet).
NotCalled == [kind |-> "notcalled"]

\* No direct call of the normalizer.
NoNorm ==
    [shape |-> "none", fields |-> EmptyMap, data |-> None, ret |-> NotCalled,
     again |-> NotCalled]

\* The stats_estimator modules are not imported: no file, no call.
NoImpl == "none"
NoFile == [kind |-> "nofile"]
NoEcall == [op |-> "none", args |-> << >>, ret |-> NotCalled]

EstimatorUnused ==
    /\ impl = NoImpl
    /\ spies = NoFile
    /\ ecall = NoEcall

\* No run of the table scan.
NoScan == [tables |-> << >>, data |-> NotCalled]

\* The database connector is not imported: no dictionary, no table, no call.
NoMap == [c \in {} |-> ""]
NoDb == [enabled |-> [s \in {} |-> 0], role_permissions |-> [k \in {} |-> 0]]
NoPcall == [op |-> "none", args |-> << >>, ret |-> NotCalled]

PermissionsUnused ==
    /\ COMMAND_CATEGORY_MAP = NoMap
    /\ db = NoDb
    /\ pcall = NoPcall

\* ---------------------------------------------------------------- cache

\* Mutant: the age comparison is inverted.
get_from_cache_inverted(ch, key, t) ==
    IF key \in DOMAIN ch
    THEN IF t - ch[key].timestamp > cache_expiry
         THEN [ret |-> ch[key].data, cache |-> ch]
         ELSE [ret |-> None, cache |-> [k \in DOMAIN ch \ {key} |-> ch[k]]]
    ELSE [ret |-> None, cache |-> ch]

\* Mutant: the entry is read without the membership test (KeyError).
get_from_cache_unchecked(ch, key, t) ==
    IF key \notin DOMAIN ch THEN [ret |-> Raised, cache |-> ch]
    ELSE IF t - ch[key].timestamp < cache_expiry
         THEN [ret |-> ch[key].data, cache |-> ch]
         ELSE [ret |-> None, cache |-> [k \in DOMAIN ch \ {key} |-> ch[k]]]

\* Mutant: entries never expire.
get_from_cache_no_expiry(ch, key, t) ==
    IF key \in DOMAIN ch THEN [ret |-> ch[key].data, cache |-> ch]
    ELSE [ret |-> None, cache |-> ch]

\* Mutant: an entry of age exactly cache_expiry is still served.
get_from_cache_inclusive(ch, key, t) ==
    IF key \in DOMAIN ch
    THEN IF t - ch[key].timestamp <= cache_expiry
         THEN [ret |-> ch[key].data, cache |-> ch]
         ELSE [ret |-> None, cache |-> [k \in DOMAIN ch \ {key} |-> ch[k]]]
    ELSE [ret |-> None, cache |-> ch]

\* Mutant: a read removes every expired entry, whatever its key.
get_from_cache_sweep(ch, key, t) ==
    LET fresh == {k \in DOMAIN ch : t - ch[k].timestamp < cache_expiry}
    IN [ret |-> IF key \in fresh THEN ch[key].data ELSE None,
        cache |-> [k \in fresh |-> ch[k]]]

\* get_from_cache(key) at loop time t on the cache ch: the value it returns
\* and the cache it leaves.
get_from_cache(ch, key, t) ==
    IF key \in DOMAIN ch
    THEN IF t - ch[key].timestamp < cache_expiry
         THEN [ret |-> ch[key].data, cache |-> ch]
         ELSE [ret |-> None, cache |-> [k \in DOMAIN ch \ {key} |-> ch[k]]]
    ELSE [ret |-> None, cache |-> ch]

\* Mutant: every result is stored under the key of player 1.
cache_store_one_key(ch, key, data, t) ==
    (CacheKey(1) :> [data |-> data, timestamp |-> t]) @@ ch

\* Mutant: the entry is not stamped with the loop time.
cache_store_unstamped(ch, key, data, t) ==
    (key :> [data |-> data, timestamp |-> 0]) @@ ch

\* Mutant: the cache is replaced by the new entry alone.
cache_store_alone(ch, key, data, t) ==
    key :> [data |-> data, timestamp |-> t]

\* self.cache[cache_key] = {'data': data, 'timestamp': loop.time()}
cache_store(ch, key, data, t) ==
    (key :> [data |-> data, timestamp |-> t]) @@ ch

\* Mutant: a session is created on every call.
session_missing_always(s) == TRUE

\* if self.session is None or self.session.closed (line 31)
session_missing(s) == s \in {"none", "closed"}

\* ensure_session(): the session afterwards.
ensure_session(s) == IF session_missing(s) THEN "open" ELSE s

\* ensure_session(): the number of ClientSession objects it creates.
sessions_created(s) == IF session_missing(s) THEN 1 ELSE 0

\* ------------------------------------------------------------ strategies

\* What a strategy does in one step: it issues a request and suspends, it
\* returns a value, or an exception leaves it.
Send(req) == [op |-> "send", req |-> req]
Done(value) == [op |-> "done", value |-> value]
Raise == [op |-> "raise"]

\* Mutant: each endpoint is tried with the header and then with the query
\* parameter before the next endpoint.
JsonRequestAt_interleaved(i) ==
    IF i % 2 = 1 THEN HeaderRequest((i + 1) \div 2)
    ELSE Request("json", i, endpoints[i \div 2], "query")

\* The i-th request of _fetch_json_api: the header loop (lines 104-130),
\* then the query-parameter loop (lines 133-152).
JsonRequestAt(i) ==
    IF i <= Len(endpoints) THEN HeaderRequest(i)
    ELSE QueryRequest(i - Len(endpoints))

\* Mutant: the credential check is missing.
fetch_json_api_never_skipped == FALSE

\* if not self.api_key: return None (lines 90-92)
fetch_json_api_skipped == api_key = NoKey

\* if not self.api_key: return None (lines 303-304)
try_authenticated_access_skipped == api_key = NoKey

\* _fetch_json_api resumed with the response to req.
fetch_json_api_step(req, resp) ==
    LET r == json_attempt(resp)
    IN IF r = Raised THEN Raise
       ELSE IF r # Miss THEN Done(r)
       ELSE IF req.i < 2 * Len(endpoints) THEN Send(JsonRequestAt(req.i + 1))
       ELSE Done(None)

\* Mutant: a failed URL is requested again.
parse_html_profile_step_retry(req, resp, player_id) ==
    LET r == html_attempt(resp, player_id)
    IN IF r = Raised THEN Raise
       ELSE IF r # Miss THEN Done(r)
       ELSE Send(HtmlRequest(req.i))

\* _parse_html_profile resumed with the response to req.
parse_html_profile_step(req, resp, player_id) ==
    LET r == html_attempt(resp, player_id)
    IN IF r = Raised THEN Raise
       ELSE IF r # Miss THEN Done(r)
       ELSE IF req.i < Len(urls) THEN Send(HtmlRequest(req.i + 1))
       ELSE Done(None)

\* Mutant: the spy page is requested only after a login answered 200.
try_authenticated_access_step_login_checked(req, resp, player_id) ==
    IF req = LoginRequest
    THEN IF resp = TransportError \/ resp.status # 200 THEN Done(None)
         ELSE Send(SpyRequest(resp.cookies))
    ELSE LET r == spy_attempt(resp, player_id)
         IN IF r = Raised THEN Raise ELSE Done(r)

\* _try_authenticated_access resumed with the response to req: after the
\* login response the spy page is requested whatever the status; an
\* exception of either request ends in the except of lines 336-339.
try_authenticated_access_step(req, resp, player_id) ==
    IF req = LoginRequest
    THEN IF resp = TransportError THEN Done(None)
         ELSE Send(SpyRequest(resp.cookies))
    ELSE LET r == spy_attempt(resp, player_id)
         IN IF r = Raised THEN Raise ELSE Done(r)

\* Mutant: the HTML fallback is tried before the JSON API.
Order_html_first == << "html", "json", "auth" >>

\* The order of the strategies in get_player_data (lines 53, 63, 73).
Order == << "json", "html", "auth" >>

Rank(strategy) == CHOOSE i \in 1..Len(Order) : Order[i] = strategy

\* The first step of a strategy.
strategy_first(strategy) ==
    CASE strategy = "json" ->
            IF fetch_json_api_skipped THEN Done(None) ELSE Send(JsonRequestAt(1))
      [] strategy = "html" -> Send(HtmlRequest(1))
      [] OTHER ->
            IF try_authenticated_access_skipped THEN Done(None)
            ELSE Send(LoginRequest)

\* The step of the strategy that issued req, on the response to it.
strategy_step(req, resp, player_id) ==
    CASE req.strategy = "json" -> fetch_json_api_step(req, resp)
      [] req.strategy = "html" -> parse_html_profile_step(req, resp, player_id)
      [] OTHER -> try_authenticated_access_step(req, resp, player_id)

\* What get_player_data does with the value a strategy returned
\* (lines 54-59, 64-69, 74-79): TRUE when it stores and returns it.
strategy_wins(value) == Truthy(value)

\* Mutant: the winning result is returned without the cache write.
strategy_won_not_stored(value, fin) ==
    [op |-> "return", value |-> value, store |-> FALSE, finished |-> fin]

\* A strategy returned a result: it is stored and returned (lines 55-59,
\* 65-69, 75-79).
strategy_won(value, fin) ==
    [op |-> "return", value |-> value, store |-> TRUE, finished |-> fin]

\* Mutant: the null result is cached like a record.
all_failed_cached(fin) ==
    [op |-> "return", value |-> None, store |-> TRUE, finished |-> fin]

\* No strategy produced data: return None, nothing is stored (lines 81-82).
all_failed(fin) ==
    [op |-> "return", value |-> None, store |-> FALSE, finished |-> fin]

\* except Exception: return None (lines 84-86)
get_player_data_except(fin) ==
    [op |-> "return", value |-> None, store |-> FALSE, finished |-> fin]

\* get_player_data from the outcome o of strategy number s on (lines 48-86):
\* the request it suspends on, or the value it returns and whether that
\* value is stored; fin lists the strategies finished before, with the
\* values they returned.
RECURSIVE chain(_, _, _)
chain(s, o, fin) ==
    IF o.op = "send"
    THEN [op |-> "send", req |-> o.req, finished |-> fin]
    ELSE IF o.op = "raise"
    THEN get_player_data_except(fin)
    ELSE LET fin2 == Append(fin, [strategy |-> Order[s], value |-> o.value])
         IN IF strategy_wins(o.value) THEN strategy_won(o.value, fin2)
            ELSE IF s < Len(Order)
            THEN chain(s + 1, strategy_first(Order[s + 1]), fin2)
            ELSE all_failed(fin2)

\* get_player_data from the step `step` on when self.session is closed:
\* session.get raises at once instead of suspending, which the strategy
\* handles like a failed request, so the call runs on to its return.
RECURSIVE on_closed_session(_, _)
on_closed_session(step, player_id) ==
    IF step.op # "send" THEN step
    ELSE on_closed_session(
             chain(Rank(step.req.strategy),
                   strategy_step(step.req, TransportError, player_id),
                   step.finished),
             player_id)

\* -------------------------------------------------------------- actions

\* The coroutines of the sequential use of the adapter (the callers in the
\* repository await each get_player_data before the next).
SeqCalls == {1}

Init ==
    /\ api_key \in Keys
    /\ session = "none"
    /\ cache = [k \in {} |-> None]
    /\ now = 0
    /\ call = [c \in SeqCalls |-> Idle]
    /\ ncalls = 0
    /\ returned = NoReturn
    /\ last = [p \in Players |-> NoCall]
    /\ norm = NoNorm
    /\ EstimatorUnused
    /\ scan = NoScan
    /\ PermissionsUnused
    /\ open_sessions = 0

\* No get_player_data is in flight.
Quiescent == \A c \in DOMAIN call : call[c].pc = "idle"

\* The record of a return of get_player_data: the coroutine, what it
\* returned (or that an exception left it), the requests it issued, the
\* strategies it ran, and whether the cache held an entry for its key when
\* the returning step began.
ReturnEvent(c, slot, value, raised, hit, fin) ==
    [c |-> c, player |-> slot.player, result |-> value, raised |-> raised,
     hit |-> hit, log |-> slot.log, answered |-> slot.answered,
     resp |-> slot.resp, finished |-> fin,
     readAge |-> slot.readAge, startedAt |-> slot.startedAt,
     prev |-> slot.prev, at |-> now,
     existed |-> CacheKey(slot.player) \in DOMAIN cache]

\* Mutant: the first profile page is requested along with the request of
\* the step, without waiting for its answer.
issued_fan_out(step) == << HtmlRequest(1), step.req >>

\* The requests a step issues before it suspends: session.get is awaited
\* where it is called, so one.
issued(step) == << step.req >>

\* The effect of a step of get_player_data that ends as `step` says, by
\* coroutine c in state slot, on the cache ch.
Apply(c, slot, ch, step) ==
    IF step.op = "send"
    THEN /\ call' = [call EXCEPT ![c] =
                        [slot EXCEPT !.pc = "await",
                                     !.log = slot.log \o issued(step),
                                     !.finished = step.finished]]
         /\ cache' = ch
         /\ returned' = NoReturn
         /\ last' = last
    ELSE /\ call' = [call EXCEPT ![c] = Idle]
         /\ cache' = IF step.store
                     THEN cache_store(ch, CacheKey(slot.player), step.value, now)
                     ELSE ch
         /\ returned' = ReturnEvent(c, slot, step.value, FALSE, FALSE,
                                    step.finished)
         /\ last' = [last EXCEPT ![slot.player] =
                        [result |-> step.value, at |-> now,
                         fetchedAt |-> IF step.value # None THEN now ELSE NoAge]]

\* get_player_data(player_id) is called: the cache check and, on a miss,
\* the code up to the first request (lines 39-53).
get_player_data(c, player_id) ==
    /\ call[c].pc = "idle"
    /\ ncalls < MaxCalls
    /\ ncalls' = ncalls + 1
    /\ LET key == CacheKey(player_id)
           got == get_from_cache(cache, key, now)
           age == IF key \in DOMAIN cache THEN now - cache[key].timestamp
                  ELSE NoAge
           slot == [Idle EXCEPT !.player = player_id, !.readAge = age,
                                !.startedAt = now, !.prev = last[player_id]]
       IN IF got.ret = Raised
          THEN /\ returned' = ReturnEvent(c, slot, None, TRUE, FALSE, << >>)
               /\ cache' = got.cache
               /\ UNCHANGED << call, session, last, open_sessions,
                               COMMAND_CATEGORY_MAP, db, pcall >>
          ELSE IF Truthy(got.ret)
          THEN /\ returned' = ReturnEvent(c, slot, got.ret, FALSE, TRUE, << >>)
               /\ cache' = got.cache
               /\ last' = [last EXCEPT ![player_id] =
                              [result |-> got.ret, at |-> now,
                               fetchedAt |-> cache[key].timestamp]]
               /\ UNCHANGED << call, session, open_sessions,
                               COMMAND_CATEGORY_MAP, db, pcall >>
          ELSE /\ session' = ensure_session(session)
               /\ open_sessions' = open_sessions + sessions_created(session)
               /\ Apply(c, slot, got.cache,
                        chain(1, strategy_first(Order[1]), << >>))
    /\ UNCHANGED << api_key, now, norm, impl, spies, ecall, scan,
                    COMMAND_CATEGORY_MAP, db, pcall >>

\* Coroutine c, suspended on a request, is resumed with the answer resp
\* and runs to its next request or to its return.
Resume(c, resp) ==
    /\ call[c].pc = "await"
    /\ LET slot == [call[c] EXCEPT !.resp = resp, !.answered = @ + 1]
           req == slot.log[Len(slot.log)]
           step == chain(Rank(req.strategy),
                         strategy_step(req, resp, slot.player), slot.finished)
       IN Apply(c, slot, cache,
                IF session = "closed" THEN on_closed_session(step, slot.player)
                ELSE step)
    /\ UNCHANGED << api_key, session, now, ncalls, norm, open_sessions, impl,
                    spies, ecall, scan,
                    COMMAND_CATEGORY_MAP, db, pcall >>

\* The response to the request coroutine c awaits arrives (or the request
\* fails).
Respond(c, resp) ==
    /\ call[c].pc = "await"
    /\ resp \in Responses(call[c].log[Len(call[c].log)])
    /\ Resume(c, resp)

\* Time passes.
Tick ==
    /\ now < MaxTicks * TickLen
    /\ now' = now + TickLen
    /\ returned' = NoReturn
    /\ UNCHANGED << api_key, session, cache, call, ncalls, last, norm, impl,
                    spies, ecall, scan,
                    open_sessions,
                    COMMAND_CATEGORY_MAP, db, pcall >>

\* close()
close ==
    /\ session = "open"
    /\ session' = "closed"
    /\ open_sessions' = open_sessions - 1
    /\ returned' = NoReturn
    /\ UNCHANGED << api_key, cache, now, call, ncalls, last, norm, impl,
                    spies, ecall, scan,
                    COMMAND_CATEGORY_MAP, db, pcall >>

\* ensure_session() called by a user of the adapter.
ensure_session_direct ==
    /\ session' = ensure_session(session)
    /\ open_sessions' = open_sessions + sessions_created(session)
    /\ ncalls' = ncalls + 1
    /\ returned' = NoReturn
    /\ UNCHANGED << api_key, cache, now, call, last, norm, impl, spies, ecall, scan,
                    COMMAND_CATEGORY_MAP, db, pcall >>

AllResponses ==
    JsonResponses \cup HtmlResponses \cup LoginResponses \cup SpyResponses

\* The adapter used as its callers in the repository use it: one
\* get_player_data awaited at a time, for any player, at any time, close()
\* between calls; time passes at any point, also while a request is
\* outstanding.
Next ==
    \/ \E c \in DOMAIN call, p \in Players : Quiescent /\ get_player_data(c, p)
    \/ \E c \in DOMAIN call, resp \in AllResponses : Respond(c, resp)
    \/ Tick
    \/ Quiescent /\ close

Spec == Init /\ [][Next]_vars

\* As Respond, with the JSON endpoints also answering with the bodies of
\* OtherJsonResponses.
RespondAnyShape(c, resp) ==
    /\ call[c].pc = "await"
    /\ LET req == call[c].log[Len(call[c].log)]
       IN resp \in Responses(req)
                    \cup (IF req.strategy = "json" THEN OtherJsonResponses ELSE {})
    /\ Resume(c, resp)

\* The sequential use of the adapter against a service whose JSON
\* endpoints answer with any of the modelled shapes.
NextAnyShape ==
    \/ \E c \in DOMAIN call, p \in Players :
          Quiescent /\ ncalls < MaxShapeCalls /\ get_player_data(c, p)
    \/ \E c \in DOMAIN call, resp \in AllResponses \cup OtherJsonResponses :
          RespondAnyShape(c, resp)
    \/ Tick

SpecAnyShape == Init /\ [][NextAnyShape]_vars

\* ------------------------------------------------- concurrent callers

\* The coroutines of two get_player_data calls that share the adapter.
ConcCalls == {1, 2}

InitConc ==
    /\ api_key \in Keys
    /\ session = "none"
    /\ cache = [k \in {} |-> None]
    /\ now = 0
    /\ call = [c \in ConcCalls |-> Idle]
    /\ ncalls = 0
    /\ returned = NoReturn
    /\ last = [p \in Players |-> NoCall]
    /\ norm = NoNorm
    /\ EstimatorUnused
    /\ scan = NoScan
    /\ PermissionsUnused
    /\ open_sessions = 0

\* The answers of the concurrent runs: every request either fails or gets
\* the answer its strategy succeeds on.
ConcResponses ==
    {TransportError, Response(200, UserBody), Response(200, StatsPage),
     LoginResponse(302, {"PHPSESSID"}),
     Response(200, SpyPage(None, Div([strength |-> 7], NoStats), Str("Duke"), 50))}

\* Time passes, within the clock bound of the concurrent runs.
TickConc == now < MaxConcTicks * TickLen /\ Tick

\* Calls are started and resumed in any order: a call may start while
\* another is suspended on a request.
NextConc ==
    \/ \E c \in DOMAIN call, p \in Players :
          ncalls < MaxConcCalls /\ get_player_data(c, p)
    \/ \E c \in DOMAIN call, resp \in ConcResponses : Respond(c, resp)
    \/ TickConc

SpecConc == InitConc /\ [][NextConc]_vars

\* ----------------------------------------------------- unreachable host

\* The request coroutine c awaits fails: the host is unreachable.
RespondUnreachable(c) == Resume(c, TransportError)

\* The sequential use of the adapter when no request gets an answer.
NextUnreachable ==
    \/ \E c \in DOMAIN call, p \in Players : Quiescent /\ get_player_data(c, p)
    \/ \E c \in DOMAIN call : RespondUnreachable(c)
    \/ Tick

\* Every request has a timeout (5 s, 10 s), so a suspended call is resumed.
SpecUnreachable ==
    /\ Init
    /\ [][NextUnreachable]_vars
    /\ WF_vars(\E c \in SeqCalls : RespondUnreachable(c))

\* --------------------------------------------------- session lifetime

\* get_player_data, ensure_session and close called in any order, also
\* while a call is suspended on a request.
NextSession ==
    \/ \E c \in DOMAIN call, p \in Players :
          ncalls < MaxSessionCalls /\ get_player_data(c, p)
    \/ \E c \in DOMAIN call, resp \in ConcResponses : Respond(c, resp)
    \/ ncalls < MaxSessionCalls /\ ensure_session_direct
    \/ close

SpecSession == InitConc /\ [][NextSession]_vars

\* ------------------------------------------ the normalizer on its own

\* The fields of a record other than source, each with the value the
\* model gives it when an input carries it.
FieldValue ==
    [name |-> Str("Duke"), level |-> Num(50), strength |-> Num(500),
     defense |-> Num(400), speed |-> Num(300), dexterity |-> Num(200),
     update_time |-> Str("2 days ago")]

\* The source values an input may carry.
Sources == {Str("TornStats API"), Str("HTML")}

\* The field sets an input may carry: any subset of the fields, with or
\* without a source.
FieldSets ==
    UNION {
        {[k \in S |-> FieldValue[k]]}
            \cup {[k \in S \cup {"source"} |->
                      IF k = "source" THEN src ELSE FieldValue[k]] : src \in Sources}
        : S \in SUBSET DOMAIN FieldValue}

Shapes == {"spy", "user", "stats", "bare"}

\* The input of the given shape that carries the fields f: f under the
\* key spy (line 399), under the key user (lines 403-405), under stats
\* beside status "ok" (lines 419-421), or at the top level (lines 436-438).
Wrap(shape, f) ==
    CASE shape = "spy" -> Dict([spy |-> Dict(f)])
      [] shape = "user" -> Dict([user |-> Dict(f)])
      [] shape = "stats" -> Dict([status |-> Str("ok"), stats |-> Dict(f)])
      [] OTHER -> Dict(f)

\* Inputs of other kinds: parsed JSON that is no object, objects whose
\* user or stats entry is no object, a status other than "ok".
OtherInputs ==
    {Num(7), Str("spy"), Str("KO"), List(<< Str("user") >>), List(<< Num(1) >>),
     ErrorBody, Dict([user |-> None]), Dict([status |-> Str("ok")]),
     Dict([status |-> Str("error"), stats |-> Dict([strength |-> Num(500)])]),
     Dict([status |-> Str("ok"), stats |-> Num(7)])}

\* The fields an input of several shapes carries in each of them: other
\* values in each, and all four stats at the top level (lines 436-438).
ShapeFields(shape) ==
    CASE shape = "spy" -> [strength |-> Num(1)]
      [] shape = "user" -> [strength |-> Num(2), name |-> Str("Duke")]
      [] shape = "stats" -> [strength |-> Num(3), level |-> Num(50)]
      [] OTHER -> [k \in Stats |-> Num(4)]

\* The keys an input of the given shape has at its top level.
ShapeKeys(shape) ==
    CASE shape = "spy" -> {"spy"}
      [] shape = "user" -> {"user"}
      [] shape = "stats" -> {"status", "stats"}
      [] OTHER -> Stats

\* The object that has the shapes of S at once.
Several(S) ==
    Dict([k \in UNION {ShapeKeys(sh) : sh \in S} |->
            CASE k = "spy" -> Dict(ShapeFields("spy"))
              [] k = "user" -> Dict(ShapeFields("user"))
              [] k = "status" -> Str("ok")
              [] k = "stats" -> Dict(ShapeFields("stats"))
              [] OTHER -> ShapeFields("bare")[k]])

SeveralInputs == {Several(S) : S \in {T \in SUBSET Shapes : Cardinality(T) >= 2}}

NormInputs ==
    {[shape |-> sh, fields |-> f, data |-> Wrap(sh, f), ret |-> NotCalled,
      again |-> NotCalled] :
        sh \in Shapes, f \in FieldSets}
    \cup {[shape |-> "other", fields |-> EmptyMap, data |-> d, ret |-> NotCalled,
           again |-> NotCalled] :
            d \in OtherInputs}
    \cup {[shape |-> "several", fields |-> EmptyMap, data |-> d,
           ret |-> NotCalled, again |-> NotCalled] :
            d \in SeveralInputs}

InitNorm ==
    /\ api_key = "KEY"
    /\ session = "none"
    /\ cache = [k \in {} |-> None]
    /\ now = 0
    /\ call = [c \in SeqCalls |-> Idle]
    /\ ncalls = 0
    /\ returned = NoReturn
    /\ last = [p \in Players |-> NoCall]
    /\ norm \in NormInputs
    /\ EstimatorUnused
    /\ scan = NoScan
    /\ PermissionsUnused
    /\ open_sessions = 0

\* _normalize_tornstats_data(norm.data) runs.
normalize ==
    /\ norm.ret = NotCalled
    /\ norm' = [norm EXCEPT !.ret = normalize_tornstats_data(norm.data)]
    /\ UNCHANGED << api_key, session, cache, now, call, ncalls, returned, last,
                    open_sessions, impl, spies, ecall, scan,
                    COMMAND_CATEGORY_MAP, db, pcall >>

\* _normalize_tornstats_data runs on the value it returned for norm.data.
normalize_again ==
    /\ norm.ret \notin {NotCalled, Raised}
    /\ norm.again = NotCalled
    /\ norm' = [norm EXCEPT !.again = normalize_tornstats_data(norm.ret)]
    /\ UNCHANGED << api_key, session, cache, now, call, ncalls, returned, last,
                    open_sessions, impl, spies, ecall, scan,
                    COMMAND_CATEGORY_MAP, db, pcall >>

NextNorm ==
    \/ normalize
    \/ normalize_again

SpecNorm == InitNorm /\ [][NextNorm]_vars

\* --------------------------------------------------------------- claims

\* The last step was a return of get_player_data.
IsReturn == returned.c # 0

\* The get_player_data coroutines suspended on a request.
Running == {call[c] : c \in {x \in DOMAIN call : call[x].pc = "await"}}

\* The request logs of the calls in flight and of the call that just
\* returned.
Logs == {r.log : r \in Running} \cup (IF IsReturn THEN {returned.log} ELSE {})

\* The strategy order the specification states.
ClaimRank(strategy) ==
    CASE strategy = "json" -> 1
      [] strategy = "html" -> 2
      [] OTHER -> 3

ClaimOrder == << "json", "html", "auth" >>

\* C1: a get_player_data call that finds an unexpired entry (age below
\* cache_expiry) for its key returns in the same step with exactly that
\* entry's data, having issued no request and started no strategy; no call
\* that found such an entry is ever suspended on a request.
C1_CacheHitReturnsEntry ==
    /\ \A r \in Running : r.readAge = NoAge \/ r.readAge >= cache_expiry
    /\ (IsReturn /\ returned.readAge # NoAge /\ returned.readAge < cache_expiry)
        => /\ returned.hit
           /\ ~returned.raised
           /\ returned.log = << >>
           /\ returned.finished = << >>
           /\ CacheKey(returned.player) \in DOMAIN cache
           /\ returned.result = cache[CacheKey(returned.player)].data
           /\ now - cache[CacheKey(returned.player)].timestamp = returned.readAge

C1_Witness ==
    /\ IsReturn
    /\ returned.hit
    /\ returned.readAge > 0
    /\ returned.readAge < cache_expiry

\* The strategies finished in a call are the first ones of the stated
\* order, in that order, and all but the last returned nothing.
FinishedInOrder(fin) ==
    /\ Len(fin) <= Len(ClaimOrder)
    /\ \A k \in 1..Len(fin) : fin[k].strategy = ClaimOrder[k]
    /\ \A k \in 1..Len(fin) : k < Len(fin) => ~Truthy(fin[k].value)

\* C2: on a cache miss the requests of a call are issued in the order
\* JSON-API, anonymous HTML, authenticated HTML; the strategy a call is
\* suspended in is the one right after the finished ones, all of which
\* returned nothing; and when a strategy returned a non-empty result the
\* call returns it with no request of a later strategy issued.
C2_StrategiesInOrder ==
    /\ \A log \in Logs : \A i, j \in 1..Len(log) :
          i < j => ClaimRank(log[i].strategy) <= ClaimRank(log[j].strategy)
    /\ \A r \in Running :
          /\ FinishedInOrder(r.finished)
          /\ \A k \in 1..Len(r.finished) : ~Truthy(r.finished[k].value)
          /\ Len(r.finished) < Len(ClaimOrder)
          /\ r.log[Len(r.log)].strategy = ClaimOrder[Len(r.finished) + 1]
    /\ (IsReturn /\ ~returned.hit /\ ~returned.raised)
        => /\ FinishedInOrder(returned.finished)
           /\ Len(returned.finished) >= 1
           /\ returned.result = returned.finished[Len(returned.finished)].value
           /\ \A i \in 1..Len(returned.log) :
                 ClaimRank(returned.log[i].strategy) <= Len(returned.finished)
           /\ ~Truthy(returned.result) => Len(returned.finished) = Len(ClaimOrder)

C2_Witness ==
    /\ IsReturn
    /\ Truthy(returned.result)
    /\ Len(returned.finished) = 2
    /\ \E i \in 1..Len(returned.log) : returned.log[i].strategy = "json"
    /\ returned.log[Len(returned.log)].strategy = "html"

\* C3: when get_player_data returns a non-null result produced by a
\* strategy, the cache entry of its key holds exactly that result with the
\* loop time of the return as its timestamp.
C3_ResultIsCached ==
    (IsReturn /\ ~returned.hit /\ returned.result # None)
        => /\ CacheKey(returned.player) \in DOMAIN cache
           /\ cache[CacheKey(returned.player)] =
                 [data |-> returned.result, timestamp |-> now]
           /\ returned.at = now

C3_Witness ==
    /\ IsReturn
    /\ ~returned.hit
    /\ returned.result # None
    /\ returned.readAge >= cache_expiry
    /\ now > returned.startedAt

\* C4: when all three strategies finished without data the call returns
\* null and the cache has no entry for its key; and a call whose
\* predecessor for the same player returned null is never served from the
\* cache: it issues at least one request.
C4_NegativeNotCached ==
    /\ (IsReturn /\ ~returned.hit /\ ~returned.raised
            /\ Len(returned.finished) = Len(ClaimOrder)
            /\ ~Truthy(returned.finished[Len(ClaimOrder)].value))
        => /\ returned.result = None
           /\ CacheKey(returned.player) \notin DOMAIN cache
    /\ (IsReturn /\ returned.prev.at # NoAge /\ returned.prev.result = None)
        => ~returned.hit /\ Len(returned.log) >= 1

C4_Witness ==
    /\ IsReturn
    /\ returned.result = None
    /\ returned.prev.at # NoAge
    /\ returned.prev.result = None
    /\ Len(returned.finished) = Len(ClaimOrder)

\* C5: no exception leaves get_player_data: every call that ends returns
\* null or a value, whatever failed in its strategies.
C5_NeverRaises ==
    IsReturn => ~returned.raised /\ returned.result # Raised

C5_Witness ==
    /\ IsReturn
    /\ ~returned.raised
    /\ returned.result = None
    /\ Len(returned.log) = 2 * Len(endpoints) + Len(urls) + 2

\* C6 as stated: of two consecutive calls for one player, the second made
\* less than cache_expiry after the first, both return the same data and
\* the second issues no request.
C6_AsStated ==
    (IsReturn /\ returned.prev.at # NoAge
        /\ returned.startedAt - returned.prev.at < cache_expiry)
        => /\ returned.result = returned.prev.result
           /\ returned.log = << >>

\* C6, amended: of two consecutive calls for one player, when the first
\* returned a record and the second is made less than cache_expiry after
\* that record was stored in the cache, the second is served from the
\* cache: it returns the same data and issues no request.
C6_IdempotentWithinTtl ==
    (IsReturn /\ returned.prev.fetchedAt # NoAge
        /\ Truthy(returned.prev.result)
        /\ returned.startedAt - returned.prev.fetchedAt < cache_expiry)
        => /\ returned.hit
           /\ returned.result = returned.prev.result
           /\ returned.log = << >>
           /\ returned.readAge = returned.startedAt - returned.prev.fetchedAt

C6_Witness ==
    /\ IsReturn
    /\ returned.hit
    /\ Truthy(returned.prev.result)
    /\ returned.prev.at > returned.prev.fetchedAt
    /\ returned.startedAt - returned.prev.fetchedAt < cache_expiry

\* C7: a call made when more than cache_expiry has passed since the entry
\* of its key was stored is not served from the cache: it issues at least
\* one request before it returns.
C7_ExpiredEntryRefetched ==
    (IsReturn /\ returned.readAge > cache_expiry)
        => /\ ~returned.hit
           /\ Len(returned.log) >= 1

C7_Witness ==
    /\ IsReturn
    /\ returned.readAge > cache_expiry
    /\ Truthy(returned.result)
    /\ Truthy(returned.prev.result)

\* C8 as stated: a read at age up to and including cache_expiry returns
\* the stored data, a read at a greater age is a miss.
C8_AsStated ==
    /\ \A r \in Running : r.readAge = NoAge \/ r.readAge > cache_expiry
    /\ (IsReturn /\ returned.readAge # NoAge)
        => (returned.hit <=> returned.readAge <= cache_expiry)

\* C8, amended: an entry is invalidated exactly when now - timestamp has
\* reached cache_expiry: a read at an age below cache_expiry returns the
\* stored data, a read at age cache_expiry or more is a miss (and removes
\* the entry, so that what the key holds afterwards was stored after the
\* read).
C8_ExpiryBoundary ==
    /\ \A r \in Running :
          /\ r.readAge = NoAge \/ r.readAge >= cache_expiry
          /\ CacheKey(r.player) \in DOMAIN cache
                => cache[CacheKey(r.player)].timestamp >= r.startedAt
    /\ (IsReturn /\ returned.readAge # NoAge)
        => /\ returned.hit <=> returned.readAge < cache_expiry
           /\ returned.hit =>
                 returned.result = cache[CacheKey(returned.player)].data

C8_Witness ==
    \E r \in Running : r.readAge = cache_expiry

\* C9: without a credential every request of a call is an anonymous
\* profile-page fetch; the JSON-API and the authenticated-HTML strategies
\* finish with null at once, and the call goes on and returns normally.
C9_NoCredentialOnlyAnonymous ==
    api_key = NoKey =>
        /\ \A log \in Logs : \A i \in 1..Len(log) :
              /\ log[i].strategy = "html"
              /\ log[i].cred = "none"
              /\ log[i].url = urls[i]
        /\ \A r \in Running :
              r.finished = << [strategy |-> "json", value |-> None] >>
        /\ (IsReturn /\ ~returned.hit)
            => /\ ~returned.raised
               /\ Len(returned.finished) >= 2
               /\ returned.finished[1] = [strategy |-> "json", value |-> None]
               /\ Len(returned.finished) = 3 =>
                     /\ returned.finished[3] = [strategy |-> "auth", value |-> None]
                     /\ Len(returned.log) = Len(urls)

C9_Witness ==
    /\ api_key = NoKey
    /\ IsReturn
    /\ Len(returned.finished) = 3
    /\ Len(returned.log) = Len(urls)

\* C10: in the JSON-API strategy the requests carrying the credential in
\* the Authorization header come first, one per endpoint in list order; a
\* request carrying it as a query parameter is issued only when a header
\* request was made to every endpoint and none produced a result, and the
\* query-parameter requests visit the endpoints in the same order.
C10_HeaderBeforeQuery ==
    /\ \A log \in Logs : \A i \in 1..Len(log) :
          log[i].strategy = "json" =>
              /\ log[i].cred \in {"header", "query"}
              /\ log[i].cred = "header" =>
                    i <= Len(endpoints) /\ log[i].url = endpoints[i]
              /\ log[i].cred = "query" =>
                    /\ i > Len(endpoints)
                    /\ i <= 2 * Len(endpoints)
                    /\ log[i].url = endpoints[i - Len(endpoints)]
                    /\ \A k \in 1..Len(endpoints) :
                          log[k].cred = "header" /\ log[k].url = endpoints[k]
    /\ \A r \in Running :
          r.log[Len(r.log)].strategy = "json" => r.finished = << >>
    /\ (IsReturn /\ Len(returned.log) >= 1
            /\ returned.log[Len(returned.log)].cred = "header")
        => \A i \in 1..Len(returned.log) : returned.log[i].cred # "query"

C10_Witness ==
    \E r \in Running :
        /\ Len(r.log) = 2 * Len(endpoints)
        /\ r.log[Len(r.log)].cred = "query"

\* ------------------------------------------------- claims C11 .. C20

\* The answer is a response with status 200 whose body parses as JSON.
ParsedOk(resp) ==
    resp.kind = "response" /\ resp.status = 200 /\ resp.body # NonJson

\* The answer is a response with another status than 200, or one with
\* status 200 whose body does not parse as JSON.
NotOkOrNotJson(resp) ==
    resp.kind = "response" /\ (resp.status # 200 \/ resp.body = NonJson)

\* The request a suspended call got its last answer to (it has issued the
\* next one since).
Answered(r) == r.log[Len(r.log) - 1]

\* C11: in the JSON-API strategy only a response with status 200 and a
\* body that parses as JSON is a success: on a non-200 response, or a 200
\* response with a non-JSON body, the call neither returns nor ends the
\* strategy with a value, it requests the next candidate endpoint (after
\* the last candidate the strategy ends with null and the next strategy
\* starts); and whenever the strategy produced a result, the answer that
\* produced it had status 200 and a body that parsed.
C11_JsonSuccessNeeds200AndJson ==
    /\ \A r \in Running :
          (Len(r.log) >= 2 /\ Answered(r).strategy = "json"
              /\ NotOkOrNotJson(r.resp))
          => LET k == Len(r.log) - 1
             IN IF k < 2 * Len(endpoints)
                THEN /\ r.log[k + 1].strategy = "json"
                     /\ r.log[k + 1].i = k + 1
                     /\ r.log[k + 1].url = endpoints[(k % Len(endpoints)) + 1]
                     /\ r.finished = << >>
                ELSE /\ r.log[k + 1].strategy = "html"
                     /\ r.finished = << [strategy |-> "json", value |-> None] >>
    /\ (IsReturn /\ Len(returned.log) >= 1
            /\ returned.log[Len(returned.log)].strategy = "json")
        => /\ ParsedOk(returned.resp)
           /\ returned.result # None
           /\ returned.finished =
                 << [strategy |-> "json", value |-> returned.result] >>

C11_Witness ==
    \E r \in Running :
        /\ Len(r.log) = 3
        /\ r.log[3].strategy = "json"
        /\ r.resp.kind = "response"
        /\ r.resp.status # 200
        /\ r.resp.body # NonJson

\* What the call does after a miss on its k-th JSON-API request: it has
\* requested candidate k + 1, or, after the last candidate, ended the
\* strategy with null and started the next strategy.
JsonMovedOn(r) ==
    LET k == Len(r.log) - 1
    IN IF k < 2 * Len(endpoints)
       THEN /\ r.log[k + 1].strategy = "json"
            /\ r.log[k + 1].i = k + 1
            /\ r.finished = << >>
       ELSE /\ r.log[k + 1].strategy = "html"
            /\ r.finished = << [strategy |-> "json", value |-> None] >>

\* C12 as stated: a response with status 200 whose body parses as JSON
\* ends the JSON-API strategy whatever the body: the call never goes on to
\* another endpoint after it, and the strategy returns the normalizer's
\* output for that body.
C12_AsStated ==
    /\ \A r \in Running :
          (Len(r.log) >= 2 /\ Answered(r).strategy = "json" /\ ParsedOk(r.resp))
          => /\ r.log[Len(r.log)].strategy # "json"
             /\ r.finished[1].value = normalize_tornstats_data(r.resp.body)
    /\ (IsReturn /\ Len(returned.log) >= 1
            /\ returned.log[Len(returned.log)].strategy = "json")
        => returned.finished[1].value = normalize_tornstats_data(returned.resp.body)

\* C12, amended: the first response with status 200 whose body parses as
\* a non-empty JSON value that the normalizer accepts ends the JSON-API
\* strategy: the normalizer's output for that body is returned and no
\* further endpoint is requested.  A 200 response whose parsed body is
\* empty ({}, [], 0, "", false, null), or on whose body the normalizer
\* raises, is a miss like a non-200 response: the next candidate is
\* requested.
C12_FirstNonEmptyJsonEnds ==
    /\ \A r \in Running :
          (Len(r.log) >= 2 /\ Answered(r).strategy = "json" /\ ParsedOk(r.resp))
          => /\ \/ ~Truthy(r.resp.body)
                \/ normalize_tornstats_data(r.resp.body) = Raised
             /\ JsonMovedOn(r)
    /\ (IsReturn /\ Len(returned.log) >= 1
            /\ returned.log[Len(returned.log)].strategy = "json")
        => /\ ParsedOk(returned.resp)
           /\ Truthy(returned.resp.body)
           /\ returned.result # Raised
           /\ returned.result = normalize_tornstats_data(returned.resp.body)
           /\ returned.finished =
                 << [strategy |-> "json", value |-> returned.result] >>

C12_Witness ==
    /\ IsReturn
    /\ Len(returned.log) = 2
    /\ returned.log[2].strategy = "json"
    /\ ParsedOk(returned.resp)
    /\ returned.result = normalize_tornstats_data(returned.resp.body)

\* C13: a timeout or connection error on a request never aborts the loop
\* or the chain.  After a failed JSON-API request the next candidate is
\* requested, and after the last one the anonymous-HTML strategy starts;
\* after a failed profile-page request the next URL is requested, and
\* after the last one the authenticated strategy is entered (it issues its
\* login request when a credential is configured); a call returns right
\* after a failed request only when all three strategies have finished,
\* and then it returns null normally.
C13_TransportErrorNeverAborts ==
    /\ \A r \in Running :
          (Len(r.log) >= 2 /\ r.resp = TransportError)
          => LET k == Len(r.log) - 1
                 req == r.log[k]
                 nxt == r.log[k + 1]
             IN /\ req.strategy = "json" => JsonMovedOn(r)
                /\ (req.strategy = "html" /\ req.i < Len(urls))
                    => /\ nxt.strategy = "html"
                       /\ nxt.i = req.i + 1
                       /\ nxt.url = urls[req.i + 1]
                /\ (req.strategy = "html" /\ req.i = Len(urls))
                    => /\ nxt.strategy = "auth"
                       /\ nxt.i = 1
                       /\ Len(r.finished) = 2
                /\ req.strategy # "auth"
    /\ (IsReturn /\ returned.resp = TransportError)
        => /\ ~returned.raised
           /\ returned.result = None
           /\ Len(returned.finished) = Len(ClaimOrder)
           /\ FinishedInOrder(returned.finished)
           /\ returned.log[Len(returned.log)].strategy = "html"
                => /\ returned.log[Len(returned.log)].i = Len(urls)
                   /\ api_key = NoKey

C13_Witness ==
    \E r \in Running :
        /\ r.resp = TransportError
        /\ Len(r.log) = 2 * Len(endpoints) + Len(urls) + 1
        /\ r.log[Len(r.log)].strategy = "auth"

\* The page yields at least one non-zero stat.
HasNonZeroStat(page) ==
    \E k \in DOMAIN html_stats(page) : html_stats(page)[k] # 0

\* The anonymous-HTML requests of a log, in the order they were issued.
HtmlRequests(log) == SelectSeq(log, LAMBDA q : q.strategy = "html")

Canonical(v) ==
    /\ v.kind = "dict"
    /\ "spy" \in DOMAIN v.d
    /\ v.d.spy.kind = "dict"
    /\ Stats \cup {"source"} \subseteq DOMAIN v.d.spy.d

\* C15: every non-null value get_player_data returns is a fully populated
\* canonical record, with all four stat fields and a source field.
C15_ReturnedRecordIsCanonical ==
    (IsReturn /\ returned.result # None) => Canonical(returned.result)

\* The body is an object with a top-level spy key.
HasSpyKey(body) == body.kind = "dict" /\ "spy" \in DOMAIN body.d

\* C16: with a credential configured, when a JSON endpoint answers 200
\* with an object that has a top-level spy key, the call does not go on to
\* another request: get_player_data returns that body unchanged.
C16_SpyBodyReturnedUnchanged ==
    /\ \A r \in Running :
          (Len(r.log) >= 2 /\ Answered(r).strategy = "json" /\ ParsedOk(r.resp))
          => ~HasSpyKey(r.resp.body)
    /\ (IsReturn /\ Len(returned.log) >= 1
            /\ returned.log[Len(returned.log)].strategy = "json"
            /\ ParsedOk(returned.resp) /\ HasSpyKey(returned.resp.body))
        => /\ api_key # NoKey
           /\ ~returned.raised
           /\ returned.result = returned.resp.body

C16_Witness ==
    /\ IsReturn
    /\ Len(returned.log) = 2
    /\ returned.resp = Response(200, PartialSpyBody)
    /\ returned.result = PartialSpyBody

\* The eight fields of a canonical record.
RecordFields ==
    {"name", "level", "strength", "defense", "speed", "dexterity",
     "update_time", "source"}

\* The normalizer was applied to an input of one of the four shapes.
NormalizedShape == norm.ret # NotCalled /\ norm.shape \in Shapes

\* C17 as stated: whatever values an input carries (all four stats among
\* them), the spy-wrapped, user-wrapped, status/stats and bare inputs
\* carrying them normalize to the same output.
C17_AsStated ==
    (NormalizedShape /\ Stats \subseteq DOMAIN norm.fields)
    => \A sh \in Shapes :
          normalize_tornstats_data(Wrap(sh, norm.fields)) = norm.ret

\* C17, amended: for any fixed set of field values the user-wrapped and
\* the status/stats input normalize to the identical record, and so does
\* the bare input when the values include all four stats.  The spy-wrapped
\* input is returned as it is: its output equals that of the other shapes
\* only when it already holds all eight fields with source "TornStats API".
C17_ShapeInvariance ==
    NormalizedShape
    => LET f == norm.fields
           bare == Stats \subseteq DOMAIN f
       IN /\ (norm.shape \in {"user", "stats"} \/ (norm.shape = "bare" /\ bare))
              => /\ norm.ret # Raised
                 /\ normalize_tornstats_data(Wrap("user", f)) = norm.ret
                 /\ normalize_tornstats_data(Wrap("stats", f)) = norm.ret
                 /\ bare => normalize_tornstats_data(Wrap("bare", f)) = norm.ret
          /\ norm.shape = "spy"
              => /\ norm.ret = Wrap("spy", f)
                 /\ (norm.ret = normalize_tornstats_data(Wrap("user", f)))
                       <=> (DOMAIN f = RecordFields
                               /\ f.source = Str("TornStats API"))

C17_Witness ==
    /\ NormalizedShape
    /\ norm.shape = "stats"
    /\ DOMAIN norm.fields = Stats
    /\ norm.ret # Raised
    /\ norm.ret = normalize_tornstats_data(Wrap("bare", norm.fields))

\* The defaults the specification states for absent fields.
ClaimDefault ==
    [name |-> Str("Unknown"), level |-> Num(0), strength |-> Num(0),
     defense |-> Num(0), speed |-> Num(0), dexterity |-> Num(0),
     update_time |-> Str("Unknown")]

\* C18: for a user-wrapped, a status/stats and a bare input (one with all
\* four stats at its top level) the normalizer returns an object with the
\* single key spy, holding exactly the fields name, level, strength,
\* defense, speed, dexterity, update_time and source: each field the input
\* carries with the input's value, each absent field with its default
\* (name "Unknown", level 0, stats 0, update_time "Unknown"), and source
\* "TornStats API" whatever the input says.
C18_RebuiltRecordWithDefaults ==
    (NormalizedShape
        /\ \/ norm.shape \in {"user", "stats"}
           \/ norm.shape = "bare" /\ Stats \subseteq DOMAIN norm.fields)
    => norm.ret =
          Dict([spy |-> Dict(
              [k \in RecordFields |->
                  IF k = "source" THEN Str("TornStats API")
                  ELSE IF k \in DOMAIN norm.fields THEN norm.fields[k]
                  ELSE ClaimDefault[k]])])

C18_Witness ==
    /\ NormalizedShape
    /\ norm.shape = "user"
    /\ DOMAIN norm.fields = {"strength", "source"}
    /\ norm.fields.source = Str("HTML")
    /\ norm.ret.d.spy.d.strength = Num(500)
    /\ norm.ret.d.spy.d.name = Str("Unknown")
    /\ norm.ret.d.spy.d.source = Str("TornStats API")

\* The value is an object with the key k.
HasKey(v, k) == v.kind = "dict" /\ k \in DOMAIN v.d

\* The input has none of the four recognized shapes.
Unrecognized(v) ==
    /\ ~HasKey(v, "spy")
    /\ ~HasKey(v, "user")
    /\ ~(HasKey(v, "status") /\ HasKey(v, "stats") /\ v.d.status = Str("ok"))
    /\ ~(\A k \in Stats : HasKey(v, k))

\* C19: the normalizer returns an input of none of the four recognized
\* shapes as it is.
C19_UnrecognizedReturnedUnmodified ==
    (norm.ret # NotCalled /\ Unrecognized(norm.data)) => norm.ret = norm.data

\* The request is the login request of the authenticated strategy: the
\* credential as a request parameter, redirects not followed.
IsLogin(q) ==
    /\ q.strategy = "auth"
    /\ q.i = 1
    /\ q.url = login_url
    /\ q.cred = "param"
    /\ ~q.allow_redirects

\* The request is the player-detail (spy page) request.
IsDetail(q) == q.strategy = "auth" /\ q.url = spy_url /\ q.i = 2

AuthReturn ==
    /\ IsReturn
    /\ Len(returned.log) >= 1
    /\ returned.log[Len(returned.log)].strategy = "auth"

\* The text after the playerData marker of the spy page did not parse.
ExtractionFault(resp) ==
    resp.kind = "response" /\ resp.status = 200 /\ resp.body.embedded = NonJson

\* The request got no answer, or the DOM parser raised on the spy page.
RequestOrDomFault(resp) ==
    \/ resp = TransportError
    \/ /\ resp.kind = "response" /\ resp.status = 200
       /\ resp.body.embedded = None /\ resp.body.container = BadDom

\* The authenticated strategy ended without a result and the call
\* returned null normally.
AuthAborted ==
    /\ ~returned.raised
    /\ returned.result = None
    /\ Len(returned.finished) = Len(ClaimOrder)
    /\ returned.finished[Len(ClaimOrder)] = [strategy |-> "auth", value |-> None]

\* C21 as stated: an exception at any step of the authenticated strategy,
\* the extraction of the embedded JSON included, ends the strategy without
\* a result, and get_player_data returns null without raising.
C21_AsStated ==
    (AuthReturn /\ (RequestOrDomFault(returned.resp) \/ ExtractionFault(returned.resp)))
    => AuthAborted

\* C21, amended: an exception of the login request, of the player-detail
\* request or of the DOM parsing aborts the authenticated strategy: no
\* further request of the strategy is issued, it yields no result, and
\* get_player_data returns null without raising.  An exception while the
\* embedded JSON is extracted is swallowed inside the extraction: the
\* strategy goes on to parse the DOM of the same page and returns the
\* record found there, if any.
C21_AuthFaultAbortsStrategy ==
    /\ \A r \in Running :
          (Len(r.log) >= 2 /\ Answered(r).strategy = "auth")
          => r.resp # TransportError
    /\ (AuthReturn /\ RequestOrDomFault(returned.resp)) => AuthAborted
    /\ (AuthReturn /\ ExtractionFault(returned.resp))
        => LET div == returned.resp.body.container
           IN /\ ~returned.raised
              /\ div \in {None, BadDom} => AuthAborted
              /\ div \notin {None, BadDom}
                  => /\ returned.result.kind = "dict"
                     /\ returned.result.d.spy.d.source = Str("HTML Spy")
                     /\ \A k \in Stats :
                           returned.result.d.spy.d[k] =
                               StatOr0(extract_stats_from_div(div), k)

C21_Witness ==
    /\ AuthReturn
    /\ IsDetail(returned.log[Len(returned.log)])
    /\ returned.resp.kind = "response"
    /\ returned.resp.status = 200
    /\ returned.resp.body.container = BadDom
    /\ returned.result = None

\* C22: under any interleaving of concurrent calls the cache is never
\* corrupted.  Every entry holds a non-empty value and a time that is not
\* in the future; and whenever the entry of a player's key appears or
\* changes, the step is the return of a call for that player whose last
\* finished strategy produced exactly the stored, non-empty value, and the
\* entry is stamped with the time of that step.  (A race between two
\* calls for one player only makes the later one store again.)
C22_CacheNeverCorrupted ==
    /\ [](\A k \in DOMAIN cache :
            /\ \E p \in Players : k = CacheKey(p)
            /\ Truthy(cache[k].data)
            /\ cache[k].timestamp <= now)
    /\ [][\A p \in Players :
            (/\ CacheKey(p) \in DOMAIN cache'
             /\ \/ CacheKey(p) \notin DOMAIN cache
                \/ cache'[CacheKey(p)] # cache[CacheKey(p)])
            => /\ returned'.c # 0
               /\ returned'.player = p
               /\ ~returned'.hit
               /\ ~returned'.raised
               /\ Len(returned'.finished) >= 1
               /\ returned'.finished[Len(returned'.finished)].value
                     = cache'[CacheKey(p)].data
               /\ returned'.result = cache'[CacheKey(p)].data
               /\ cache'[CacheKey(p)].timestamp = now']_vars

\* A redundant fetch: a call found no entry, fetched, and stores over the
\* entry a concurrent call for the same player stored in the meantime.
C22_Witness ==
    /\ IsReturn
    /\ ~returned.hit
    /\ Truthy(returned.result)
    /\ returned.readAge = NoAge
    /\ returned.existed
    /\ now > returned.startedAt

\* C23: the adapter owns at most one open session at any time, whatever
\* the order of get_player_data, ensure_session and close: the number of
\* open sessions it created is 1 when self.session is open and 0
\* otherwise; a session is created only in a step that finds self.session
\* missing or closed, and an open self.session is left as it is by every
\* step but close.
C23_AtMostOneOpenSession ==
    /\ [](/\ open_sessions \in {0, 1}
          /\ open_sessions = 1 <=> session = "open")
    /\ [][/\ open_sessions' > open_sessions
                => /\ session \in {"none", "closed"}
                   /\ session' = "open"
                   /\ open_sessions' = open_sessions + 1
          /\ (session = "open" /\ session' # "open")
                => /\ session' = "closed"
                   /\ open_sessions' = open_sessions - 1]_vars

\* Two calls are suspended on requests of the one session: the later one
\* found the session open and created none.
C23_Witness ==
    /\ Cardinality(Running) = 2
    /\ session = "open"
    /\ open_sessions = 1
    /\ ncalls = 2

\* C24: a call never has more than one request awaiting its answer: the
\* requests a call issued exceed the requests answered or failed by one
\* while the call is suspended and by none otherwise, so each request is
\* issued only after the one before it completed or failed; at its return
\* a call has no request outstanding.
C24_NoFanOut ==
    /\ \A c \in DOMAIN call :
          /\ call[c].answered <= Len(call[c].log)
          /\ Len(call[c].log) - call[c].answered
                = IF call[c].pc = "await" THEN 1 ELSE 0
    /\ IsReturn => returned.answered = Len(returned.log)

C24_Witness ==
    /\ Cardinality(Running) = 2
    /\ \E r \in Running :
          /\ r.answered = 2 * Len(endpoints)
          /\ r.log[Len(r.log)].strategy = "html"

\* C25: with no credential and every request failing, a call issues
\* exactly one request per anonymous profile URL, in list order, and none
\* for the other strategies, and then returns null without raising: it is
\* never suspended on a fifth request, and a suspended call always comes
\* to its return.
C25_UnreachableTerminates ==
    /\ [](api_key = NoKey
            => /\ \A log \in Logs :
                     /\ Len(log) <= Len(urls)
                     /\ \A i \in 1..Len(log) : log[i] = HtmlRequest(i)
               /\ \A r \in Running : r.resp \in {None, TransportError}
               /\ IsReturn
                     => /\ ~returned.raised
                        /\ ~returned.hit
                        /\ returned.result = None
                        /\ Len(returned.log) = Len(urls)
                        /\ returned.answered = Len(urls)
                        /\ returned.resp = TransportError)
    /\ (api_key = NoKey /\ Running # {}) ~> (IsReturn /\ returned.result = None)

C25_Witness ==
    /\ api_key = NoKey
    /\ IsReturn
    /\ returned.result = None
    /\ returned.resp = TransportError
    /\ returned.log = << HtmlRequest(1), HtmlRequest(2), HtmlRequest(3), HtmlRequest(4) >>
    /\ ncalls = 2

\* ------------------------------------------------------ stats_estimator

\* The two stats_estimator modules of the repository:
\* src/bot_package/src/utils/stats_estimator.py and
\* src/backup_utils/stats_estimator.py.
Impls == {"bot_package", "backup_utils"}

\* round(n / d) for d > 0: to the nearest integer, a tie to the even one.
Round(n, d) ==
    LET q == n \div d
        r == n % d
    IN IF 2 * r < d THEN q
       ELSE IF 2 * r > d THEN q + 1
       ELSE IF q % 2 = 0 THEN q ELSE q + 1

\* int(n / d) for d > 0: the fraction is cut off, towards zero.
Trunc(n, d) == IF n >= 0 THEN n \div d ELSE 0 - ((0 - n) \div d)

\* (damage_per_turn / 240) ** 0.65 in thousandths, for damage / turns > 0.
\* The damages and turns of the model give the quotients 1/2, 1 and 2.
PowerLaw(damage, turns) ==
    CASE damage = 240 * turns -> 1000
      [] 2 * damage = 240 * turns -> 637
      [] damage = 2 * 240 * turns -> 1569

\* estimate_primary_stat(damage, turns, opponent_primary) of bot_package.
\* Without turns the damage per turn is 0; a negative damage per turn to
\* the power 0.65 is a complex number, which round() rejects (TypeError).
bot_package_estimate_primary_stat(damage, turns, opponent_primary) ==
    IF turns <= 0 \/ damage = 0 THEN Num(0)
    ELSE IF damage < 0 THEN Raised
    ELSE Num(Round(opponent_primary * PowerLaw(damage, turns), 1000 * 1000) * 1000)

\* estimate_primary_stat(damage, turns, my_primary_stat) of backup_utils:
\* floor((my_primary_stat * 1000 / (damage / turns)) / 1000) * 1000.
backup_utils_estimate_primary_stat(damage, turns, my_primary_stat) ==
    IF turns <= 0 \/ damage <= 0 THEN None
    ELSE Num(((my_primary_stat * 1000 * turns) \div (damage * 1000)) * 1000)

estimate_primary_stat(i, damage, turns, my_primary_stat) ==
    IF i = "bot_package"
    THEN bot_package_estimate_primary_stat(damage, turns, my_primary_stat)
    ELSE backup_utils_estimate_primary_stat(damage, turns, my_primary_stat)

\* The multipliers of bot_package, in tenths: 3.5, 3.8 and 4.2.
multipliers == [high |-> 35, medium |-> 38, low |-> 42]

\* multipliers.get(accuracy, multipliers["low"])
multiplier(accuracy) ==
    IF accuracy \in DOMAIN multipliers THEN multipliers[accuracy]
    ELSE multipliers["low"]

\* The accuracy parameter when the caller leaves it out.
DefaultAccuracy == Str("low")

\* Mutant: the product is rounded to the nearest integer.
bot_package_estimate_total_stats_rounded(args) ==
    IF Len(args) = 0 \/ Len(args) > 2 \/ args[1] = None THEN Raised
    ELSE LET accuracy == IF Len(args) = 2 THEN args[2] ELSE DefaultAccuracy
         IN Num(Round(args[1].n * multiplier(accuracy.s), 10))

\* estimate_total_stats(primary_stat, accuracy="low") of bot_package, called
\* with the positional arguments args: int(primary_stat * multiplier).
\* None * float is a TypeError.
bot_package_estimate_total_stats(args) ==
    IF Len(args) = 0 \/ Len(args) > 2 \/ args[1] = None THEN Raised
    ELSE LET accuracy == IF Len(args) = 2 THEN args[2] ELSE DefaultAccuracy
         IN Num(Trunc(args[1].n * multiplier(accuracy.s), 10))

\* estimate_total_stats(primary_stat_estimate) of backup_utils, called with
\* the positional arguments args: a second argument is a TypeError.
backup_utils_estimate_total_stats(args) ==
    IF Len(args) # 1 THEN Raised
    ELSE IF args[1] = None THEN None
    ELSE Num(args[1].n * 4)

estimate_total_stats(i, args) ==
    IF i = "bot_package" THEN bot_package_estimate_total_stats(args)
    ELSE backup_utils_estimate_total_stats(args)

\* a / b > n / d, for b # 0 and d > 0.
RatioAbove(a, b, n, d) == IF b > 0 THEN a * d > n * b ELSE a * d < n * b

\* Mutant: a ratio of exactly 1.5 is safe.
get_recommendation_inclusive(my_total_stats, enemy_total_stats) ==
    IF ~Truthy(enemy_total_stats) \/ ~Truthy(my_total_stats) THEN Str("unknown")
    ELSE IF \/ RatioAbove(my_total_stats.n, enemy_total_stats.n, 3, 2)
            \/ my_total_stats.n * 2 = 3 * enemy_total_stats.n
    THEN Str("safe")
    ELSE IF RatioAbove(my_total_stats.n, enemy_total_stats.n, 4, 5) THEN Str("caution")
    ELSE Str("avoid")

\* get_recommendation(my_total_stats, enemy_total_stats) of backup_utils.
get_recommendation(my_total_stats, enemy_total_stats) ==
    IF ~Truthy(enemy_total_stats) \/ ~Truthy(my_total_stats) THEN Str("unknown")
    ELSE IF RatioAbove(my_total_stats.n, enemy_total_stats.n, 3, 2) THEN Str("safe")
    ELSE IF RatioAbove(my_total_stats.n, enemy_total_stats.n, 4, 5) THEN Str("caution")
    ELSE Str("avoid")

\* ------------------------------------- the estimator functions on their own

Damages == {0 - 240, 0, 240, 480}
TurnCounts == {0 - 1, 0, 1, 2}
MyPrimaries == {1000, 2500, 3000}

\* Primary stats handed to estimate_total_stats: None is what
\* estimate_primary_stat of backup_utils returns for unusable input.
PrimaryEstimates == {None, Num(0), Num(5), Num(1000), Num(1001), Num(0 - 1000)}
Accuracies == {"high", "medium", "low", "exact"}

MyTotals == {None, Num(0), Num(4), Num(8), Num(9), Num(15), Num(16), Num(0 - 3)}
EnemyTotals == {None, Num(0), Num(5), Num(10), Num(0 - 2)}

EstimateCalls ==
    {[op |-> "estimate_primary_stat", args |-> << Num(d), Num(t), Num(m) >>,
      ret |-> NotCalled] : d \in Damages, t \in TurnCounts, m \in MyPrimaries}
    \cup {[op |-> "estimate_total_stats", args |-> << p >>, ret |-> NotCalled] :
            p \in PrimaryEstimates}
    \cup {[op |-> "estimate_total_stats", args |-> << p, Str(a) >>,
           ret |-> NotCalled] : p \in PrimaryEstimates, a \in Accuracies}
    \cup {[op |-> "get_recommendation", args |-> << m, e >>, ret |-> NotCalled] :
            m \in MyTotals, e \in EnemyTotals}

\* get_recommendation(my_total_stats, enemy_total_stats) is the function of
\* backup_utils; the function of that name in bot_package takes two
\* records.
InitEstimate ==
    /\ api_key = "KEY"
    /\ session = "none"
    /\ cache = [k \in {} |-> None]
    /\ now = 0
    /\ call = [c \in SeqCalls |-> Idle]
    /\ ncalls = 0
    /\ returned = NoReturn
    /\ last = [p \in Players |-> NoCall]
    /\ norm = NoNorm
    /\ open_sessions = 0
    /\ impl \in Impls
    /\ spies = NoFile
    /\ ecall \in EstimateCalls
    /\ ecall.op = "get_recommendation" => impl = "backup_utils"
    /\ scan = NoScan
    /\ PermissionsUnused

\* The call ecall runs and ends with ret.
Returns(op, ret) ==
    /\ ecall.op = op
    /\ ecall.ret = NotCalled
    /\ ecall' = [ecall EXCEPT !.ret = ret]
    /\ UNCHANGED << api_key, session, cache, now, call, ncalls, returned, last,
                    norm, open_sessions, impl, spies, scan,
                    COMMAND_CATEGORY_MAP, db, pcall >>

call_estimate_primary_stat ==
    Returns("estimate_primary_stat",
            estimate_primary_stat(impl, ecall.args[1].n, ecall.args[2].n,
                                  ecall.args[3].n))

call_estimate_total_stats ==
    Returns("estimate_total_stats", estimate_total_stats(impl, ecall.args))

call_get_recommendation ==
    Returns("get_recommendation",
            get_recommendation(ecall.args[1], ecall.args[2]))

NextEstimate ==
    \/ call_estimate_primary_stat
    \/ call_estimate_total_stats
    \/ call_get_recommendation

SpecEstimate == InitEstimate /\ [][NextEstimate]_vars

\* The call that ended was estimate_primary_stat with no turns or no
\* damage.
UnusableEstimateInput ==
    /\ ecall.op = "estimate_primary_stat"
    /\ ecall.ret # NotCalled
    /\ (ecall.args[2].n <= 0 \/ ecall.args[1].n <= 0)

\* C26: estimate_primary_stat returns null, and does not raise, whenever
\* turns <= 0 or damage <= 0, in both stats_estimator modules.
C26_NullOnUnusableInput == UnusableEstimateInput => ecall.ret = None

\* estimate_total_stats ended; it was called with the positional arguments
\* ecall.args.
TotalEstimated == ecall.op = "estimate_total_stats" /\ ecall.ret # NotCalled

\* The tier's constant in tenths, as the specification lists them.
ClaimTenths == [high |-> 35, medium |-> 38, low |-> 42]

\* C27 as stated: estimate_total_stats(primary, tier) returns primary
\* multiplied by the tier's constant: 3.5 for high, 3.8 for medium and 4.2
\* for low accuracy.
C27_AsStated ==
    (TotalEstimated /\ Len(ecall.args) = 2 /\ ecall.args[1] # None
        /\ ecall.args[2].s \in DOMAIN ClaimTenths)
    => /\ ecall.ret \notin {Raised, None}
       /\ ecall.ret.n * 10 = ecall.args[1].n * ClaimTenths[ecall.args[2].s]

\* r is the integer part of tenths / 10.
IntegerPartOf(r, tenths) ==
    IF tenths >= 0 THEN 10 * r <= tenths /\ tenths < 10 * r + 10
    ELSE 10 * r >= tenths /\ tenths > 10 * r - 10

\* C27: in the bot_package module estimate_total_stats(primary, tier)
\* returns the integer part of primary times the tier's constant (3.5 high,
\* 3.8 medium, 4.2 low, and 4.2 when the tier is left out or unknown) and
\* raises for a null primary; estimate_total_stats(primary) of the
\* backup_utils module has no tier, returns primary times 4, null for a
\* null primary, and raises when given a tier.
C27_TotalIsScaledPrimary ==
    TotalEstimated
    => LET primary == ecall.args[1]
           tenths == IF Len(ecall.args) = 2
                        /\ ecall.args[2].s \in DOMAIN ClaimTenths
                     THEN ClaimTenths[ecall.args[2].s] ELSE 42
       IN /\ impl = "bot_package"
              => IF primary = None THEN ecall.ret = Raised
                 ELSE /\ ecall.ret \notin {Raised, None}
                      /\ IntegerPartOf(ecall.ret.n, primary.n * tenths)
          /\ impl = "backup_utils"
              => IF Len(ecall.args) = 2 THEN ecall.ret = Raised
                 ELSE IF primary = None THEN ecall.ret = None
                 ELSE ecall.ret = Num(primary.n * 4)

C27_Witness ==
    /\ impl = "bot_package"
    /\ TotalEstimated
    /\ ecall.args = << Num(1001), Str("high") >>
    /\ ecall.ret = Num(3503)

\* get_recommendation ended.
Recommended == ecall.op = "get_recommendation" /\ ecall.ret # NotCalled

\* The total is missing or zero.
MissingTotal(v) == v = None \/ v.n = 0

\* m / e > n / d, for e # 0 and d > 0.
RatioExceeds(m, e, n, d) == IF e > 0 THEN d * m > n * e ELSE d * m < n * e

PlayerKey(player_id) ==
    IF player_id.kind = "num" THEN ToString(player_id.n) ELSE player_id.s

\* datetime.now().isoformat(), datetime.now().strftime(...): the time as
\* text.
TimeText(t) == Str(ToString(t))

\* load_spy_data(): the content of the file, {} when there is no file
\* (which it then creates).
load_spy_data(file) == IF file = NoFile THEN EmptyMap ELSE file

\* The record add_spy_data builds at time t: bot_package stores the
\* arguments under the full stat names with time.time() and a date text,
\* backup_utils stores int() of each argument (the callers pass integers)
\* under short names with the ISO text of the time.
spy_record(i, strength, speed, dexterity, defense, t) ==
    IF i = "bot_package"
    THEN Dict([strength |-> Num(strength), speed |-> Num(speed),
               dexterity |-> Num(dexterity), defense |-> Num(defense),
               total |-> Num(strength + speed + dexterity + defense),
               timestamp |-> Num(t), date |-> TimeText(t)])
    ELSE Dict([str |-> Num(strength), spd |-> Num(speed),
               dex |-> Num(dexterity), def |-> Num(defense),
               total |-> Num(strength + speed + dexterity + defense),
               timestamp |-> TimeText(t)])

\* Mutant: the file is written with the new record only.
assigned_record_only(data, key, record) == [k \in {key} |-> record]

\* spy_data[str(player_id)] = record
assigned(data, key, record) ==
    [k \in DOMAIN data \cup {key} |-> IF k = key THEN record ELSE data[k]]

\* The player ids the callers pass (command arguments are text; the key is
\* str(player_id) for a number as well).
PlayerIds == {Str("1"), Str("2"), Num(1)}

\* The stats of a spy report: those of the test, none, and small ones.
SpyStats ==
    {<< 1000000, 800000, 700000, 500000 >>, << 0, 0, 0, 0 >>, << 7, 7, 7, 8 >>}

InitSpies ==
    /\ api_key = "KEY"
    /\ session = "none"
    /\ cache = [k \in {} |-> None]
    /\ now = 0
    /\ call = [c \in SeqCalls |-> Idle]
    /\ ncalls = 0
    /\ returned = NoReturn
    /\ last = [p \in Players |-> NoCall]
    /\ norm = NoNorm
    /\ open_sessions = 0
    /\ impl \in Impls
    /\ spies = NoFile
    /\ ecall = NoEcall
    /\ scan = NoScan
    /\ PermissionsUnused

\* add_spy_data(player_id, strength, speed, dexterity, defense): load the
\* file, set the player's record, save the file, return the record.
add_spy_data(player_id, st) ==
    LET key == PlayerKey(player_id)
        record == spy_record(impl, st[1], st[2], st[3], st[4], now)
        file == assigned(load_spy_data(spies), key, record)
    IN /\ spies' = file
       /\ ecall' = [op |-> "add_spy_data",
                    args |-> << player_id, Num(st[1]), Num(st[2]), Num(st[3]),
                                Num(st[4]) >>,
                    ret |-> file[key]]
       /\ UNCHANGED << api_key, session, cache, now, call, ncalls, returned,
                       last, norm, open_sessions, impl, scan,
                       COMMAND_CATEGORY_MAP, db, pcall >>

\* get_spy_data(player_id): spy_data.get(str(player_id)).
get_spy_data(player_id) ==
    LET data == load_spy_data(spies)
        key == PlayerKey(player_id)
    IN /\ spies' = data
       /\ ecall' = [op |-> "get_spy_data", args |-> << player_id >>,
                    ret |-> IF key \in DOMAIN data THEN data[key] ELSE None]
       /\ UNCHANGED << api_key, session, cache, now, call, ncalls, returned,
                       last, norm, open_sessions, impl, scan,
                       COMMAND_CATEGORY_MAP, db, pcall >>

NextSpies ==
    \/ \E p \in PlayerIds, st \in SpyStats : add_spy_data(p, st)
    \/ \E p \in PlayerIds : get_spy_data(p)
    \/ Tick

SpecSpies == InitSpies /\ [][NextSpies]_vars

\* The names of the four stats in the records of the module in use.
StatFields ==
    IF impl = "bot_package" THEN << "strength", "speed", "dexterity", "defense" >>
    ELSE << "str", "spd", "dex", "def" >>

\* The file holds a record for the key.
Stored(file, key) == file # NoFile /\ key \in DOMAIN file

\* The record of the key, null when the file holds none.
RecordOf(file, key) == IF Stored(file, key) THEN file[key] ELSE None

\* The record has the four stats st, their sum as its total, and a
\* timestamp.
RecordHolds(record, st) ==
    /\ record.kind = "dict"
    /\ \A i \in 1..4 :
          /\ StatFields[i] \in DOMAIN record.d
          /\ record.d[StatFields[i]] = st[i]
    /\ "total" \in DOMAIN record.d
    /\ record.d.total = Num(st[1].n + st[2].n + st[3].n + st[4].n)
    /\ "timestamp" \in DOMAIN record.d

SpyKeys == {PlayerKey(p) : p \in PlayerIds}

\* C28: get_spy_data(p) returns the record written by the most recent
\* add_spy_data for p, whose four stats equal the values supplied, whose
\* total is their sum and which has a timestamp; it returns nothing for a
\* player never added; an add for p leaves every other player's record
\* unchanged.  As steps: an add_spy_data returns and stores such a record
\* for its player; the record stored for a player appears or changes only
\* in an add_spy_data for that player, starting from no record at all; and
\* get_spy_data returns the stored record, or null when there is none.
C28_SpyDataRoundTrip ==
    /\ [](/\ ecall.op = "add_spy_data"
              => /\ RecordHolds(ecall.ret,
                        << ecall.args[2], ecall.args[3], ecall.args[4],
                           ecall.args[5] >>)
                 /\ RecordOf(spies, PlayerKey(ecall.args[1])) = ecall.ret
          /\ ecall.op = "get_spy_data"
              => ecall.ret = RecordOf(spies, PlayerKey(ecall.args[1]))
          /\ ecall.op = "none" => \A k \in SpyKeys : ~Stored(spies, k))
    /\ [][\A k \in SpyKeys :
            RecordOf(spies', k) # RecordOf(spies, k)
            => /\ ecall'.op = "add_spy_data"
               /\ PlayerKey(ecall'.args[1]) = k]_vars

\* A player's record is read back while another player has one too.
C28_Witness ==
    /\ ecall.op = "get_spy_data"
    /\ ecall.args = << Str("1") >>
    /\ ecall.ret # None
    /\ RecordHolds(ecall.ret, << Num(7), Num(7), Num(7), Num(8) >>)
    /\ Stored(spies, "2")
    /\ now > 0

\* ------------------------------------- the table scan of _parse_html_profile

\* A text is the sequence of its characters.
UpperCase ==
    << "A", "B", "C", "D", "E", "F", "G", "H", "I", "J", "K", "L", "M", "N",
       "O", "P", "Q", "R", "S", "T", "U", "V", "W", "X", "Y", "Z" >>
LowerCase ==
    << "a", "b", "c", "d", "e", "f", "g", "h", "i", "j", "k", "l", "m", "n",
       "o", "p", "q", "r", "s", "t", "u", "v", "w", "x", "y", "z" >>

\* text.lower()
lower(text) ==
    [i \in 1..Len(text) |->
        IF \E j \in 1..Len(UpperCase) : UpperCase[j] = text[i]
        THEN LowerCase[CHOOSE j \in 1..Len(UpperCase) : UpperCase[j] = text[i]]
        ELSE text[i]]

Whitespace == {" "}

\* text.strip()
strip(text) ==
    LET inked == {i \in 1..Len(text) : text[i] \notin Whitespace}
    IN IF inked = {} THEN << >>
       ELSE SubSeq(text, CHOOSE i \in inked : \A j \in inked : i <= j,
                         CHOOSE i \in inked : \A j \in inked : i >= j)

\* text.replace(old, ''), for a character old
replace(text, old) == SelectSeq(text, LAMBDA c : c # old)

Digits == << "0", "1", "2", "3", "4", "5", "6", "7", "8", "9" >>

IsDigit(c) == \E d \in 1..Len(Digits) : Digits[d] = c

RECURSIVE Decimal(_)
\* The number a sequence of digits denotes.
Decimal(digits) ==
    IF digits = << >> THEN 0
    ELSE Decimal(SubSeq(digits, 1, Len(digits) - 1)) * 10
         + (CHOOSE d \in 0..9 : Digits[d + 1] = digits[Len(digits)])

\* The exception int() raises on a text that is no integer literal.
ValueError == [kind |-> "ValueError"]

\* int(text): surrounding whitespace is ignored, a sign is accepted, the
\* rest has to be digits (the texts of the model hold no underscore).
int(text) ==
    LET s == strip(text)
        signed == Len(s) > 0 /\ s[1] \in {"+", "-"}
        digits == IF signed THEN Tail(s) ELSE s
    IN IF digits = << >> \/ \E i \in 1..Len(digits) : ~IsDigit(digits[i])
       THEN ValueError
       ELSE Num(IF signed /\ s[1] = "-" THEN 0 - Decimal(digits)
                ELSE Decimal(digits))

\* ['strength', 'speed', 'dexterity', 'defense']
StatText ==
    [strength |-> << "s", "t", "r", "e", "n", "g", "t", "h" >>,
     speed |-> << "s", "p", "e", "e", "d" >>,
     dexterity |-> << "d", "e", "x", "t", "e", "r", "i", "t", "y" >>,
     defense |-> << "d", "e", "f", "e", "n", "s", "e" >>]

\* cell.text.strip().lower() in ['strength', 'speed', 'dexterity', 'defense']
IsStatName(text) == \E s \in DOMAIN StatText : StatText[s] = text

RECURSIVE find_all_td(_)
\* table.find_all('td'): the cells of all rows of the table, in document
\* order, as one list.
find_all_td(rows) ==
    IF rows = << >> THEN << >> ELSE Head(rows) \o find_all_td(Tail(rows))

RECURSIVE scan_cells(_, _, _)
\* for i, cell in enumerate(cells): ... data[stat_name] = int(...), from
\* the cell at position i on (positions count from 1 here).
scan_cells(cells, i, data) ==
    IF i > Len(cells) THEN data
    ELSE LET stat_name == lower(strip(cells[i]))
         IN IF IsStatName(stat_name) /\ i + 1 <= Len(cells)
                /\ strip(cells[i + 1]) # << >>
            THEN LET value == int(replace(strip(cells[i + 1]), ","))
                     stat == CHOOSE s \in DOMAIN StatText : StatText[s] = stat_name
                 IN scan_cells(cells, i + 1,
                        IF value = ValueError THEN data
                        ELSE [k \in DOMAIN data \cup {stat} |->
                                IF k = stat THEN value ELSE data[k]])
            ELSE scan_cells(cells, i + 1, data)

RECURSIVE scan_tables(_, _)
\* for table in tables: ...
scan_tables(tables, data) ==
    IF tables = << >> THEN data
    ELSE scan_tables(Tail(tables),
                     scan_cells(find_all_td(Head(tables)), 1, data))

\* Number of rows of a table.
MaxRows == 2

\* The texts of the cells: a stat name padded and capitalised, a stat name
\* as it is (which is also a text that is no number), a number with
\* thousands separators, a signed number, and blank.
CellTexts ==
    {<< " ", "S", "t", "r", "e", "n", "g", "t", "h", " " >>,
     << "s", "p", "e", "e", "d" >>,
     << "1", ",", "2", "3", "4", ",", "5", "6", "7" >>,
     << "-", "5" >>,
     << " " >>}

\* A row has one cell or two.
Rows == {<< a >> : a \in CellTexts} \cup {<< a, b >> : a, b \in CellTexts}

\* A page has one table of up to MaxRows rows, or two tables of one row.
ScannedPages ==
    {<< rows >> : rows \in UNION {[1..n -> Rows] : n \in 1..MaxRows}}
    \cup {<< << r1 >>, << r2 >> >> : r1, r2 \in {<< a >> : a \in CellTexts}}

InitScan ==
    /\ api_key = "KEY"
    /\ session = "none"
    /\ cache = [k \in {} |-> None]
    /\ now = 0
    /\ call = [c \in SeqCalls |-> Idle]
    /\ ncalls = 0
    /\ returned = NoReturn
    /\ last = [p \in Players |-> NoCall]
    /\ norm = NoNorm
    /\ open_sessions = 0
    /\ EstimatorUnused
    /\ scan \in {[tables |-> t, data |-> NotCalled] : t \in ScannedPages}
    /\ PermissionsUnused

\* Method 2 of _parse_html_profile runs on the tables of the page, no stat
\* having been found before (data = {}).
table_scan ==
    /\ scan.data = NotCalled
    /\ scan' = [scan EXCEPT !.data = scan_tables(scan.tables, EmptyMap)]
    /\ UNCHANGED << api_key, session, cache, now, call, ncalls, returned, last,
                    norm, open_sessions, impl, spies, ecall,
                    COMMAND_CATEGORY_MAP, db, pcall >>

NextScan == table_scan

SpecScan == InitScan /\ [][NextScan]_vars

\* The table scan ended.
Scanned == scan.data # NotCalled

\* The positions << table, row, cell >> of the cells whose trimmed,
\* lower-cased text is the name of the stat.
LabelCells(stat) ==
    {pos \in {<< t, r, c >> : t \in 1..2, r \in 1..(MaxRows + 1), c \in 1..2} :
        /\ pos[1] <= Len(scan.tables)
        /\ pos[2] <= Len(scan.tables[pos[1]])
        /\ pos[3] <= Len(scan.tables[pos[1]][pos[2]])
        /\ lower(strip(scan.tables[pos[1]][pos[2]][pos[3]])) = StatText[stat]}

\* The cell has a following sibling in its row.
HasSibling(pos) == pos[3] < Len(scan.tables[pos[1]][pos[2]])

\* The number in the following sibling of the cell, thousands separators
\* removed (ValueError when it holds none).
SiblingNumber(pos) ==
    int(replace(strip(scan.tables[pos[1]][pos[2]][pos[3] + 1]), ","))

\* A label cell with a number in its following sibling gives the stat
\* that number (for a stat named by one cell of the page).
LabelledValueRecorded ==
    Scanned
    => \A stat \in Stats : \A pos \in LabelCells(stat) :
          (LabelCells(stat) = {pos} /\ HasSibling(pos)
             /\ SiblingNumber(pos) # ValueError)
          => /\ stat \in DOMAIN scan.data
             /\ scan.data[stat] = SiblingNumber(pos)

\* C30: for a table cell whose trimmed, case-insensitive text equals a
\* stat name, the value recorded for the stat is the number in the
\* following sibling cell of the same row, thousands separators removed; a
\* label cell with no following sibling in its row contributes no value.
C30_ValueFromFollowingSibling ==
    /\ LabelledValueRecorded
    /\ Scanned
        => \A stat \in Stats :
              (\A pos \in LabelCells(stat) : ~HasSibling(pos))
              => stat \notin DOMAIN scan.data

\* --------------------------------------------------- pages of any content

\* Number of get_player_data invocations of a behaviour of SpecAnyPage.
MaxPageCalls == 1

\* int(''.join(filter(str.isdigit, level_text))): the digits of the text,
\* whatever stands between them; 0 when it holds none.
level_value(level_text) == Decimal(SelectSeq(level_text, IsDigit))

LevelText == << "L", "e", "v", "e", "l", ":", " ", "-", "5" >>

\* The text of a stat element that holds a signed number, and the number
\* int(text.strip().replace(',', '')) makes of it (lines 204, 283).
SignedText == << " ", "-", "5" >>
SignedNumber == int(replace(strip(SignedText), ",")).n

\* Profile pages of further content: a container whose stats are non-zero
\* and sum to zero, beside a table; a container with stats, beside a table
\* and texts; texts only; a container and a table of zeros, beside texts;
\* a table with a negative number.
OtherPages ==
    {Page(Div([strength |-> 0 - SignedNumber, defense |-> SignedNumber], NoStats),
          [speed |-> 7],
          NoStats, None, level_value(LevelText)),
     Page(Div([strength |-> 3], NoStats), [strength |-> 9], [speed |-> 4],
          Str("Duke"), 50),
     Page(None, NoStats, [dexterity |-> 4], Str("Duke"), 50),
     Page(Div(NoStats, NoStats), [speed |-> 0], [defense |-> 6], None, 0),
     Page(None, [strength |-> 10, speed |-> SignedNumber], NoStats, None, 0)}

\* Spy pages of further content: a stats container that holds no number,
\* one that holds a negative number, and containers beside an embedded
\* object, an embedded number and an embedded empty object.
OtherSpyPages ==
    {SpyPage(None, Div(NoStats, NoStats), None, level_value(LevelText)),
     SpyPage(None, Div([strength |-> SignedNumber, speed |-> 2], NoStats),
             Str("Duke"), 50),
     SpyPage(UserBody, Div([strength |-> 7], NoStats), Str("Duke"), 50),
     SpyPage(Num(7), Div([strength |-> 7], NoStats), Str("Duke"), 50),
     SpyPage(Dict(EmptyMap), Div([strength |-> 7], NoStats), Str("Duke"), 50)}

OtherPageResponses == {Response(200, pg) : pg \in OtherPages \cup OtherSpyPages}

\* As Respond, with the JSON endpoints failing and the pages of the HTML
\* strategies also having the contents of OtherPages and OtherSpyPages.
RespondAnyPage(c, resp) ==
    /\ call[c].pc = "await"
    /\ LET req == call[c].log[Len(call[c].log)]
       IN resp \in CASE req.strategy = "json" -> {TransportError}
                     [] req.strategy = "html" ->
                            HtmlResponses \cup {Response(200, pg) : pg \in OtherPages}
                     [] req = LoginRequest -> LoginResponses
                     [] OTHER ->
                            SpyResponses \cup {Response(200, pg) : pg \in OtherSpyPages}
    /\ Resume(c, resp)

\* The sequential use of the adapter against a service whose pages have
\* any of the modelled contents.
NextAnyPage ==
    \/ \E c \in DOMAIN call, p \in Players :
          Quiescent /\ ncalls < MaxPageCalls /\ get_player_data(c, p)
    \/ \E c \in DOMAIN call, resp \in AllResponses \cup OtherPageResponses :
          RespondAnyPage(c, resp)

SpecAnyPage == Init /\ [][NextAnyPage]_vars

\* The answer is a page delivered with status 200.
PageOk(resp) == resp.kind = "response" /\ resp.status = 200

\* The call that just returned did so on the answer to an anonymous-HTML
\* request.
HtmlReturn ==
    /\ IsReturn
    /\ ~returned.hit
    /\ Len(returned.log) >= 1
    /\ returned.log[Len(returned.log)].strategy = "html"

\* The profile pages the anonymous-HTML strategy has just handled: the
\* one a suspended call moved on from, the one a call returned on.
HandledPages ==
    {r.resp.body : r \in {x \in Running : /\ Len(x.log) >= 2
                                          /\ Answered(x).strategy = "html"
                                          /\ PageOk(x.resp)}}
    \cup (IF HtmlReturn /\ PageOk(returned.resp) THEN {returned.resp.body} ELSE {})

\* The heuristic found a non-zero stat.
Yielded(found) == \E k \in DOMAIN found : found[k] # 0

\* The order of the heuristics the specification states.
ClaimMethods == << "container", "table", "text" >>

\* The four stats of a record built by an HTML strategy.
RecordStats(record) == [k \in Stats |-> record.d.spy.d[k]]

\* C31: the three extraction heuristics are applied in the order container
\* lookup, table scan, text-pattern search; a later heuristic runs only if
\* all earlier ones yielded no non-zero stat, and the stats of the returned
\* record are those of the first heuristic that yielded a non-zero stat.
C31_FirstYieldingHeuristicWins ==
    /\ \A page \in HandledPages :
          LET ran == html_methods(page)
          IN /\ Len(ran) <= Len(ClaimMethods)
             /\ \A i \in 1..Len(ran) :
                   /\ ran[i].method = ClaimMethods[i]
                   /\ \A j \in 1..(i - 1) : ~Yielded(ran[j].found)
    /\ (HtmlReturn /\ returned.result # None)
        => LET ran == html_methods(returned.resp.body)
               first == CHOOSE i \in 1..Len(ran) :
                            /\ Yielded(ran[i].found)
                            /\ \A j \in 1..(i - 1) : ~Yielded(ran[j].found)
           IN /\ \E i \in 1..Len(ran) : Yielded(ran[i].found)
              /\ RecordStats(returned.result)
                    = [k \in Stats |-> StatOr0(ran[first].found, k)]

\* The call that just returned did so on the answer to the player-detail
\* request, a page delivered with status 200.
DetailPageReturn ==
    /\ AuthReturn
    /\ IsDetail(returned.log[Len(returned.log)])
    /\ PageOk(returned.resp)

\* The text after the playerData marker parsed to a non-empty value.
EmbeddedNonEmpty(page) ==
    /\ page.embedded \notin {None, NonJson}
    /\ Truthy(page.embedded)

IsDomResult(result, page) ==
    IF page.container \in {None, BadDom} THEN result = None
    ELSE /\ result # None
         /\ result.d.spy.d.source = Str("HTML Spy")
         /\ RecordStats(result)
               = [k \in Stats |-> Num(extract_stats_from_div(page.container)[k])]

IsHtmlRecord(v, source) ==
    /\ v.kind = "dict"
    /\ "spy" \in DOMAIN v.d
    /\ v.d.spy.kind = "dict"
    /\ "source" \in DOMAIN v.d.spy.d
    /\ v.d.spy.d.source = Str(source)

\* C33: the DOM fallback of the authenticated-HTML strategy yields a record
\* only when at least one of the four extracted stats is non-zero:
\* get_player_data never returns or caches an HTML Spy record whose stats
\* are all zero.
C33_NoAllZeroSpyRecord ==
    /\ (IsReturn /\ IsHtmlRecord(returned.result, "HTML Spy"))
        => \E k \in Stats : returned.result.d.spy.d[k] # Num(0)
    /\ \A key \in DOMAIN cache :
          IsHtmlRecord(cache[key].data, "HTML Spy")
          => \E k \in Stats : cache[key].data.d.spy.d[k] # Num(0)

\* C34: every record built by the HTML strategies (source HTML or HTML Spy)
\* has non-negative strength, defense, speed and dexterity and a level
\* >= 0, for every page content, including pages whose stat cells hold
\* signed numbers.
C34_HtmlRecordNonNegative ==
    (IsReturn /\ (\/ IsHtmlRecord(returned.result, "HTML")
                  \/ IsHtmlRecord(returned.result, "HTML Spy")))
    => /\ \A k \in Stats : returned.result.d.spy.d[k].n >= 0
       /\ returned.result.d.spy.d.level.n >= 0

\* The level of every such record is >= 0: only the digits of the level
\* text are used.
HtmlRecordLevelNonNegative ==
    (IsReturn /\ (\/ IsHtmlRecord(returned.result, "HTML")
                  \/ IsHtmlRecord(returned.result, "HTML Spy")))
    => returned.result.d.spy.d.level.n >= 0

\* The entry of the key is expired at the current time.
Expired(key) == now - cache[key].timestamp >= cache_expiry

\* In this step get_player_data(p) is called and finds no usable entry: it
\* goes on to its first request.
MissStarted(p) ==
    /\ ncalls' = ncalls + 1
    /\ \E c \in DOMAIN call :
          /\ call[c].pc = "idle"
          /\ call'[c].pc = "await"
          /\ call'[c].player = p

\* In this step get_player_data(p) is called.
Started(p) ==
    \/ MissStarted(p)
    \/ /\ ncalls' = ncalls + 1
       /\ returned'.c # 0
       /\ returned'.player = p

\* C35: expiry is checked on access only: an entry leaves the cache only in
\* a read of its own key made when it is expired, and that read reports a
\* miss; every read of an expired entry removes it; no other step (a read
\* or write of another key, the passage of time) removes an entry.
C35_ExpiryOnAccessOnly ==
    [][/\ \A key \in DOMAIN cache :
             key \notin DOMAIN cache'
             => \E p \in Players :
                   key = CacheKey(p) /\ MissStarted(p) /\ Expired(key)
       /\ \A p \in Players :
             (Started(p) /\ CacheKey(p) \in DOMAIN cache /\ Expired(CacheKey(p)))
             => CacheKey(p) \notin DOMAIN cache' /\ MissStarted(p)]_vars

\* A call for player 1 has removed the expired entry of player 1 and is
\* fetching, while the expired entry of player 2 is still in the cache.
C35_Witness ==
    /\ \E r \in Running :
          /\ r.player = 1
          /\ r.readAge >= cache_expiry
          /\ r.startedAt = now
    /\ CacheKey(1) \notin DOMAIN cache
    /\ CacheKey(2) \in DOMAIN cache
    /\ Expired(CacheKey(2))

\* ------------------------------------------------------- permissions
\* sister_harrier_utils/db_connector.py: has_permission reads the tables
\* server_permissions_settings and role_permissions, which Brother Owl
\* writes, and the module-level COMMAND_CATEGORY_MAP.

\* class PermissionLevel
PermissionLevel_NONE == 0
PermissionLevel_USE == 1
PermissionLevel_CONTRIBUTE == 2
PermissionLevel_MANAGE == 3
PermissionLevel_ADMIN == 4

PermissionLevels == PermissionLevel_NONE..PermissionLevel_ADMIN

\* True and False
Bool(b) == [kind |-> "bool", b |-> b]

\* The dictionary of the module as imported.
InitialCategoryMap ==
    [c \in {"spy", "target", "war", "warpay", "warstrategy"} |->
        IF c \in {"spy", "target"} THEN "spy" ELSE "war"]

\* Rows of role_permissions a table of the model holds at most.
MaxPermissionRows == 2

\* The server the commands are used on; role_permissions has a row of
\* another server, "s2", as well.
Servers == {"s1"}
RoleIds == {"r1", "r2"}

\* The keys of role_permissions: (server_id, role_id, category).
RoleKeys ==
    {<< "s1", r, c >> : r \in RoleIds, c \in {"spy", "war"}}
        \cup {<< "s2", "r1", "spy" >>}

\* The contents of role_permissions: at most MaxPermissionRows rows, one
\* per key, each granting PermissionLevel_USE or PermissionLevel_MANAGE.
RoleTables ==
    UNION {[ks -> {PermissionLevel_USE, PermissionLevel_MANAGE}] :
              ks \in {k \in SUBSET RoleKeys : Cardinality(k) <= MaxPermissionRows}}

\* The contents of server_permissions_settings: no row for the server, or
\* a row with enabled 0 or 1.
EnabledTables == UNION {[ss -> {0, 1}] : ss \in SUBSET Servers}

\* The role lists of the members who use a command.
RoleLists == {<< >>, << "r1" >>, << "r2" >>, << "r1", "r2" >>}

\* The commands checked: one of the module's dictionary and one that is not
\* in it.
CommandNames == {"spy", "bank"}

\* The commands and categories registered at run time.
RegisteredCommands == {"spy", "bank"}
RegisteredCategories == {"war", ""}

InitPermissions ==
    /\ api_key = "KEY"
    /\ session = "none"
    /\ cache = [k \in {} |-> None]
    /\ now = 0
    /\ call = [c \in SeqCalls |-> Idle]
    /\ ncalls = 0
    /\ returned = NoReturn
    /\ last = [p \in Players |-> NoCall]
    /\ norm = NoNorm
    /\ open_sessions = 0
    /\ EstimatorUnused
    /\ scan = NoScan
    /\ COMMAND_CATEGORY_MAP = InitialCategoryMap
    /\ db \in {[enabled |-> e, role_permissions |-> t] :
                  e \in EnabledTables, t \in RoleTables}
    /\ pcall = NoPcall

\* is_permissions_enabled(server_id): bool(result['enabled']) if result
\* else False
is_permissions_enabled(server_id) ==
    IF server_id \in DOMAIN db.enabled THEN db.enabled[server_id] # 0 ELSE FALSE

\* get_command_category(command_name): COMMAND_CATEGORY_MAP.get(command_name)
get_command_category(command_name) ==
    IF command_name \in DOMAIN COMMAND_CATEGORY_MAP
    THEN Str(COMMAND_CATEGORY_MAP[command_name])
    ELSE None

\* get_role_permission(server_id, role_id, category): the level of the row,
\* PermissionLevel.PermissionLevel_NONE without a row.
get_role_permission(server_id, role_id, category) ==
    IF << server_id, role_id, category >> \in DOMAIN db.role_permissions
    THEN db.role_permissions[<< server_id, role_id, category >>]
    ELSE PermissionLevel_NONE

\* max(a, b)
max(a, b) == IF b > a THEN b ELSE a

\* Mutant: the level of the last role of the list stands for all of them.
highest_level_last_role(server_id, user_role_ids, category) ==
    IF user_role_ids = << >> THEN PermissionLevel_NONE
    ELSE get_role_permission(server_id, user_role_ids[Len(user_role_ids)],
                             category)

\* The loop of has_permission: highest_level starts at PermissionLevel_NONE and takes
\* max(highest_level, level) for each role of the list in turn.
RECURSIVE highest_level(_, _, _)
highest_level(server_id, user_role_ids, category) ==
    IF user_role_ids = << >> THEN PermissionLevel_NONE
    ELSE max(highest_level(server_id,
                           SubSeq(user_role_ids, 1, Len(user_role_ids) - 1),
                           category),
             get_role_permission(server_id, user_role_ids[Len(user_role_ids)],
                                 category))

\* What has_permission returns.
has_permission_result(server_id, user_role_ids, command_name, required_level) ==
    LET category == get_command_category(command_name)
    IN IF ~is_permissions_enabled(server_id) THEN TRUE
       ELSE IF ~Truthy(category) THEN TRUE
       ELSE highest_level(server_id, user_role_ids, category.s) >= required_level

\* has_permission(server_id, user_role_ids, command_name, required_level):
\* the coroutine has no await, it runs in one step.
has_permission(server_id, user_role_ids, command_name, required_level) ==
    /\ pcall' = [op |-> "has_permission",
                 args |-> << server_id, user_role_ids, command_name,
                             required_level >>,
                 ret |-> Bool(has_permission_result(server_id, user_role_ids,
                                                    command_name,
                                                    required_level))]
    /\ UNCHANGED << api_key, session, cache, now, call, ncalls, returned, last,
                    norm, open_sessions, impl, spies, ecall, scan,
                    COMMAND_CATEGORY_MAP, db >>

\* COMMAND_CATEGORY_MAP[command_name] = category
registered(map, command_name, category) ==
    [c \in DOMAIN map \cup {command_name} |->
        IF c = command_name THEN category ELSE map[c]]

\* register_command_category(command_name, category)
register_command_category(command_name, category) ==
    /\ COMMAND_CATEGORY_MAP' =
           registered(COMMAND_CATEGORY_MAP, command_name, category)
    /\ pcall' = [op |-> "register_command_category",
                 args |-> << command_name, category >>, ret |-> None]
    /\ UNCHANGED << api_key, session, cache, now, call, ncalls, returned, last,
                    norm, open_sessions, impl, spies, ecall, scan, db >>

NextPermissions ==
    \/ \E s \in Servers, rs \in RoleLists, c \in CommandNames,
          l \in PermissionLevels : has_permission(s, rs, c, l)
    \/ \E c \in RegisteredCommands, cat \in RegisteredCategories :
          register_command_category(c, cat)

SpecPermissions == InitPermissions /\ [][NextPermissions]_vars

\* The largest level the table gives one of the roles for the category; PermissionLevel_NONE
\* for a member without roles and for roles without a row.
MaxRoleLevel(server_id, roles, category) ==
    LET levels ==
            {PermissionLevel_NONE} \cup
            {db.role_permissions[k] :
                k \in {k \in DOMAIN db.role_permissions :
                          /\ k[1] = server_id
                          /\ k[3] = category
                          /\ \E i \in 1..Len(roles) : roles[i] = k[2]}}
    IN CHOOSE m \in levels : \A l \in levels : l <= m

\* Permissions are disabled for a server without a settings row and for one
\* whose row has enabled = 0.
PermissionsDisabled(server_id) ==
    \A s \in DOMAIN db.enabled : s = server_id => db.enabled[s] = 0

\* What the check is to return when the category of the command is
\* `category` ("" when it has none).
Permitted(server_id, roles, category, required_level) ==
    \/ PermissionsDisabled(server_id)
    \/ category = ""
    \/ MaxRoleLevel(server_id, roles, category) >= required_level

\* The category the dictionary has for the command, "" without an entry.
CategoryOf(map, command_name) ==
    IF command_name \in DOMAIN map THEN map[command_name] ELSE ""

\* C36: has_permission returns True when permissions are disabled for the
\* server or the command has no category (no entry, or an empty one), and
\* otherwise True exactly when the largest level of the member's roles for
\* the category of the command is at least the required level; when the
\* command was registered by the call just before, the category of that
\* registration is the one that counts.
C36_HasPermission ==
    [][(pcall'.op = "has_permission" /\ pcall' # pcall) =>
          LET a == pcall'.args
          IN /\ pcall'.ret =
                    Bool(Permitted(a[1], a[2],
                                   CategoryOf(COMMAND_CATEGORY_MAP, a[3]), a[4]))
             /\ (pcall.op = "register_command_category" /\ pcall.args[1] = a[3])
                    => pcall'.ret =
                           Bool(Permitted(a[1], a[2], pcall.args[2], a[4]))]_vars

\* Witness of C36: on a server with permissions enabled, a check of the
\* command "bank", registered in the category "war" at run time, has
\* returned False for a member whose two roles have at most PermissionLevel_USE there, and
\* would have returned True for the level of the roles.
C36_Witness ==
    /\ pcall.op = "has_permission"
    /\ pcall.args[3] = "bank"
    /\ Len(pcall.args[2]) = 2
    /\ ~PermissionsDisabled(pcall.args[1])
    /\ CategoryOf(COMMAND_CATEGORY_MAP, "bank") = "war"
    /\ MaxRoleLevel(pcall.args[1], pcall.args[2], "war") = PermissionLevel_USE
    /\ pcall.args[4] = PermissionLevel_CONTRIBUTE
    /\ pcall.ret = Bool(FALSE)

\* --------------------------------------------- unrecognized JSON bodies
\* The parsed body is non-empty and has none of the four recognized shapes.
UnrecognizedBody(v) == Truthy(v) /\ Unrecognized(v)

\* C37: when a JSON endpoint answers 200 with a non-empty body of no
\* recognized shape, the call does not go on to another request: it returns
\* that body, having issued JSON-API requests only, and stores it in the
\* cache at the time of the return; a later call for the player made less
\* than cache_expiry after that is served from the cache, without a request.
C37_UnrecognizedBodyBlocksFallbacks ==
    /\ \A r \in Running :
          (Len(r.log) >= 2 /\ Answered(r).strategy = "json" /\ ParsedOk(r.resp))
          => ~UnrecognizedBody(r.resp.body)
    /\ (IsReturn /\ Len(returned.log) >= 1
            /\ returned.log[Len(returned.log)].strategy = "json"
            /\ ParsedOk(returned.resp) /\ UnrecognizedBody(returned.resp.body))
        => /\ returned.result = returned.resp.body
           /\ \A i \in 1..Len(returned.log) : returned.log[i].strategy = "json"
           /\ CacheKey(returned.player) \in DOMAIN cache
           /\ cache[CacheKey(returned.player)] =
                 [data |-> returned.resp.body, timestamp |-> now]
    /\ (IsReturn /\ returned.prev.fetchedAt # NoAge
            /\ UnrecognizedBody(returned.prev.result)
            /\ returned.startedAt - returned.prev.fetchedAt < cache_expiry)
        => /\ returned.log = << >>
           /\ returned.result = returned.prev.result

\* ------------------------------------------ the normalizer, once more

\* C38: the normalizer is idempotent: applied to a value it returned, it
\* returns that value again.
C38_NormalizerIdempotent ==
    norm.again # NotCalled => norm.again = norm.ret

\* Witness of C38: a user-wrapped input was rebuilt, and the normalizer
\* applied to the rebuilt record returned it as it was.
C38_Witness ==
    /\ norm.shape = "user"
    /\ norm.again # NotCalled
    /\ norm.ret # norm.data
    /\ norm.again = norm.ret
    /\ norm.ret.d.spy.d.source = Str("TornStats API")

\* The record the specification states for the fields f: each field of f
\* with its value, each absent field with its default, source
\* "TornStats API".
ClaimRecord(f) ==
    Dict([spy |-> Dict(
        [k \in RecordFields |->
            IF k = "source" THEN Str("TornStats API")
            ELSE IF k \in DOMAIN f THEN f[k]
            ELSE ClaimDefault[k]])])

\* The input has the shape: a spy key, a user key, status "ok" beside
\* stats, all four stats at the top level.
Matches(v, shape) ==
    CASE shape = "spy" -> HasKey(v, "spy")
      [] shape = "user" -> HasKey(v, "user")
      [] shape = "stats" ->
            HasKey(v, "status") /\ HasKey(v, "stats") /\ v.d.status = Str("ok")
      [] OTHER -> \A k \in Stats : HasKey(v, k)

\* The precedence the specification states.
ShapeOrder == << "spy", "user", "stats", "bare" >>

\* The first shape of the precedence order that the input has.
FirstShape(v) ==
    ShapeOrder[CHOOSE i \in 1..Len(ShapeOrder) :
                  /\ Matches(v, ShapeOrder[i])
                  /\ \A j \in 1..(i - 1) : ~Matches(v, ShapeOrder[j])]

\* The input converted as its shape alone: the spy entry under the key
\* spy, or the record of the fields under user, under stats, or at the top
\* level.
ConvertedAs(shape, v) ==
    CASE shape = "spy" -> Dict([spy |-> v.d.spy])
      [] shape = "user" -> ClaimRecord(v.d.user.d)
      [] shape = "stats" -> ClaimRecord(v.d.stats.d)
      [] OTHER -> ClaimRecord(v.d)

\* The normalizer returned a value for an object that has at least one of
\* the four shapes.
NormalizedObject ==
    /\ norm.ret \notin {NotCalled, Raised}
    /\ \E i \in 1..Len(ShapeOrder) : Matches(norm.data, ShapeOrder[i])

\* C39 as stated: an input is converted according to the first shape it
\* has in the order spy, user, status/stats, bare, and the output is that
\* conversion alone: nothing of a shape further down the order is in it.
C39_AsStated ==
    NormalizedObject
        => norm.ret = ConvertedAs(FirstShape(norm.data), norm.data)

\* C39, amended: an input is treated according to the first shape it has
\* in the order spy, user, status/stats, bare.  A user, status/stats or bare
\* input is converted from the fields of that shape alone.  An input with
\* a spy key is returned whole: its spy entry is unchanged, and whatever
\* else it holds (a user entry, status and stats, stats at the top level)
\* is in the output beside it.
C39_ShapePrecedence ==
    NormalizedObject
        => IF FirstShape(norm.data) = "spy"
           THEN /\ norm.ret = norm.data
                /\ norm.ret.d.spy = norm.data.d.spy
           ELSE norm.ret = ConvertedAs(FirstShape(norm.data), norm.data)

\* Witness of C39: an input with a user entry, status "ok" beside stats,
\* and all four stats at its top level was converted from its user entry.
C39_Witness ==
    /\ norm.shape = "several"
    /\ norm.ret # NotCalled
    /\ \A sh \in {"user", "stats", "bare"} : Matches(norm.data, sh)
    /\ ~Matches(norm.data, "spy")
    /\ norm.ret = ClaimRecord(ShapeFields("user"))
    /\ norm.ret.d.spy.d.strength = Num(2)

\* ------------------------------------------------- frame of a call

\* The cache entry of the key is the same before and after the step:
\* absent in both, or present in both with the same data and timestamp.
EntryUnchanged(key) ==
    /\ key \in DOMAIN cache <=> key \in DOMAIN cache'
    /\ (key \in DOMAIN cache /\ key \in DOMAIN cache') => cache'[key] = cache[key]

\* The step is one of a get_player_data call for player p: the call
\* starts, is resumed with an answer, or returns.
StepOfCall(p) ==
    \/ \E c \in DOMAIN call :
          /\ call[c].pc = "await"
          /\ call[c].player = p
          /\ call'[c] # call[c]
    \/ \E c \in DOMAIN call :
          /\ call[c].pc = "idle"
          /\ call'[c].pc = "await"
          /\ call'[c].player = p
    \/ /\ returned'.c # 0
       /\ returned'.player = p

\* C40: a step changes the cache entry of a player only when it is a step
\* of a get_player_data call for that player, whatever other calls are
\* suspended meanwhile; the cache has no keys but the players' keys; and
\* no step changes the credential of the adapter.
C40_CallChangesOwnKeyOnly ==
    [][/\ api_key' = api_key
       /\ DOMAIN cache' \subseteq {CacheKey(p) : p \in Players}
       /\ \A p \in Players : ~EntryUnchanged(CacheKey(p)) => StepOfCall(p)]_vars

\* Witness of C40: a call for player 1, started while the entry of player 2
\* was being fetched or after, has stored its result later than the entry
\* of player 2, which is still there as it was stored.
C40_Witness ==
    /\ IsReturn
    /\ returned.player = 1
    /\ ~returned.hit
    /\ Len(returned.log) >= 1
    /\ CacheKey(1) \in DOMAIN cache
    /\ CacheKey(2) \in DOMAIN cache
    /\ cache[CacheKey(1)].timestamp = now
    /\ cache[CacheKey(2)].timestamp < now
    /\ last[2].result = cache[CacheKey(2)].data

====
